---- MODULE Spec2Model ----
(***************************************************************************)
(* State-machine model of the avito.ma / moteur.ma listing scrapers:       *)
(*   scraping_select_pages/avito_initial.py   range discovery, basic CSV   *)
(*   scraping_select_pages/avito_main.py      detail enrichment from CSV   *)
(*   scraping_select_pages/moteur_initial.py  range discovery, basic CSV   *)
(*   scraping_select_pages/moteur_main.py     detail enrichment from CSV   *)
(*   scraping_last_page/avito_scraper.py      page 1 discovery + details   *)
(*   scraping_last_page/moteur_scraper.py     page 1 discovery + details   *)
(*                                                                         *)
(* Text is modelled as a sequence of one-character strings, so that the    *)
(* regular-expression and substring operations of the code are computed.   *)
(***************************************************************************)
EXTENDS Integers, Sequences, FiniteSets, TLC

\* ------------------------------------------------------------------ bounds
\* Largest page number a run may request.
MaxPage == 2
\* Largest number of listing elements one discovery page holds.
MaxListings == 2
\* Largest number of image elements one detail page holds when one listing is harvested.
MaxImages == 3
\* Largest number of image elements one detail page holds in a run of a whole pipeline.
MaxGallery == 1

\* --------------------------------------------------------------- constants
\* folder_name[:50]
FolderNameMaxLen == 50

\* ------------------------------------------------------------ text helpers
Min(a, b) == IF a < b THEN a ELSE b

Digits == {"0", "1", "2", "3", "4", "5", "6", "7", "8", "9"}

LowerLetters ==
    {"a", "b", "c", "d", "e", "f", "g", "h", "i", "j", "k", "l", "m", "n",
     "o", "p", "q", "r", "s", "t", "u", "v", "w", "x", "y", "z"}

UpperLetters ==
    {"A", "B", "C", "D", "E", "F", "G", "H", "I", "J", "K", "L", "M", "N",
     "O", "P", "Q", "R", "S", "T", "U", "V", "W", "X", "Y", "Z"}

\* Accented letters the pages use; they are word characters for Python's re.
AccentLetters == {"é", "è", "É", "à"}

\* Python 3 str patterns: \w is a letter, a digit or the underscore.
IsWordChar(c) == c \in LowerLetters \cup UpperLetters \cup AccentLetters \cup Digits \cup {"_"}

\* \s
IsSpace(c) == c \in {" ", "\t", "\n"}

\* str.strip(): leading and trailing whitespace removed.
RECURSIVE LStrip(_)
LStrip(s) == IF s # <<>> /\ IsSpace(Head(s)) THEN LStrip(Tail(s)) ELSE s

RECURSIVE RStrip(_)
RStrip(s) ==
    IF s # <<>> /\ IsSpace(s[Len(s)]) THEN RStrip(SubSeq(s, 1, Len(s) - 1)) ELSE s

Strip(s) == RStrip(LStrip(s))

\* `sub in s` for Python strings.
Contains(sub, s) ==
    \E i \in 0..(Len(s) - Len(sub)) : SubSeq(s, i + 1, i + Len(sub)) = sub

DigitChar(d) ==
    CASE d = 0 -> "0" [] d = 1 -> "1" [] d = 2 -> "2" [] d = 3 -> "3" [] d = 4 -> "4"
      [] d = 5 -> "5" [] d = 6 -> "6" [] d = 7 -> "7" [] d = 8 -> "8" [] d = 9 -> "9"

\* str(n) of a non-negative integer, as f"{idx}" and csv.writer produce it.
RECURSIVE IntToStr(_)
IntToStr(n) ==
    IF n < 10 THEN <<DigitChar(n)>> ELSE IntToStr(n \div 10) \o <<DigitChar(n % 10)>>

\* The sentinels of the code.
NA == <<"N", "/", "A">>
PrixNonSpecifie ==
    <<"P", "r", "i", "x", " ", "n", "o", "n", " ", "s", "p", "é", "c", "i", "f", "i", "é">>
Particulier == <<"P", "a", "r", "t", "i", "c", "u", "l", "i", "e", "r">>
DateInconnue == <<"D", "a", "t", "e", " ", "i", "n", "c", "o", "n", "n", "u", "e">>

\* ------------------------------------------------------- IdentityAssigner
\* re.sub(r'[^\w\s-]', '', title)
StripNonWord(s) == SelectSeq(s, LAMBDA c : IsWordChar(c) \/ IsSpace(c) \/ c = "-")

\* re.sub(r'\s+', '_', folder_name): each maximal whitespace run becomes one "_".
RECURSIVE CollapseSpaces(_)
CollapseSpaces(s) ==
    IF s = <<>> THEN <<>>
    ELSE IF IsSpace(Head(s)) THEN <<"_">> \o CollapseSpaces(LStrip(Tail(s)))
    ELSE <<Head(s)>> \o CollapseSpaces(Tail(s))

\* A name whose length would not be limited (what C14 excludes).
TruncateNone(s, n) == s

\* s[:n]
Truncate(s, n) == SubSeq(s, 1, Min(n, Len(s)))

\* A name whose ordinal would not be set off from the title (what C13 excludes).
create_folder_name_joined(title, idx) ==
    IntToStr(idx) \o Truncate(CollapseSpaces(StripNonWord(title)), FolderNameMaxLen)

create_folder_name(title, idx) ==
    IntToStr(idx) \o <<"_">>
        \o Truncate(CollapseSpaces(StripNonWord(title)), FolderNameMaxLen)

\* --------------------------------------------------- RelativeDateNormalizer
UpperSeq ==
    <<"A", "B", "C", "D", "E", "F", "G", "H", "I", "J", "K", "L", "M", "N",
      "O", "P", "Q", "R", "S", "T", "U", "V", "W", "X", "Y", "Z">>

LowerSeq ==
    <<"a", "b", "c", "d", "e", "f", "g", "h", "i", "j", "k", "l", "m", "n",
      "o", "p", "q", "r", "s", "t", "u", "v", "w", "x", "y", "z">>

LowerChar(c) ==
    IF c \in UpperLetters THEN LowerSeq[CHOOSE i \in 1..26 : UpperSeq[i] = c]
    ELSE IF c = "É" THEN "é" ELSE c

UpperChar(c) ==
    IF c \in LowerLetters THEN UpperSeq[CHOOSE i \in 1..26 : LowerSeq[i] = c]
    ELSE IF c = "é" THEN "É" ELSE c

\* str.lower() and str.upper()
Lower(s) == [i \in 1..Len(s) |-> LowerChar(s[i])]
Upper(s) == [i \in 1..Len(s) |-> UpperChar(s[i])]

DigitVal(c) == CHOOSE d \in 0..9 : DigitChar(d) = c

\* int() of the maximal digit run that starts s.
RECURSIVE ParseDigits(_, _)
ParseDigits(s, acc) ==
    IF s # <<>> /\ Head(s) \in Digits
    THEN ParseDigits(Tail(s), acc * 10 + DigitVal(Head(s)))
    ELSE acc

\* A search that would answer 0 for a phrase without digits (what C16 excludes).
RECURSIVE FirstNumberOrZero(_)
FirstNumberOrZero(s) ==
    IF s = <<>> THEN 0
    ELSE IF Head(s) \in Digits THEN ParseDigits(s, 0)
    ELSE FirstNumberOrZero(Tail(s))

\* re.search(r'(\d+)', s): the first digit run as an integer, -1 for no match.
RECURSIVE FirstNumber(_)
FirstNumber(s) ==
    IF s = <<>> THEN -1
    ELSE IF Head(s) \in Digits THEN ParseDigits(s, 0)
    ELSE FirstNumber(Tail(s))

SecondsPerMinute == 60
SecondsPerHour == 3600
SecondsPerDay == 86400

Pad2(n) == IF n < 10 THEN <<"0">> \o IntToStr(n) ELSE IntToStr(n)

\* strftime("%Y-%m-%d"): the calendar day of t (seconds), written as a day number.
FormatDate(t) == IntToStr(t \div SecondsPerDay)

\* A format with the 12-hour clock, "%I" for "%H" (what C17 excludes).
FormatDateTime12h(t) ==
    LET h == (t % SecondsPerDay) \div SecondsPerHour IN
    FormatDate(t) \o <<" ">> \o Pad2(IF h % 12 = 0 THEN 12 ELSE h % 12)
        \o <<":">> \o Pad2((t % SecondsPerHour) \div SecondsPerMinute)
        \o <<":">> \o Pad2(t % SecondsPerMinute)

\* strftime("%Y-%m-%d %H:%M:%S")
FormatDateTime(t) ==
    FormatDate(t) \o <<" ">> \o Pad2((t % SecondsPerDay) \div SecondsPerHour)
        \o <<":">> \o Pad2((t % SecondsPerHour) \div SecondsPerMinute)
        \o <<":">> \o Pad2(t % SecondsPerMinute)

KwInstants ==
    <<"q", "u", "e", "l", "q", "u", "e", "s", " ", "i", "n", "s", "t", "a", "n", "t", "s">>
KwMinute == <<"m", "i", "n", "u", "t", "e">>
KwHeure == <<"h", "e", "u", "r", "e">>
KwJour == <<"j", "o", "u", "r">>
KwMois == <<"m", "o", "i", "s">>
KwAn == <<"a", "n">>

\* A chain of tests that would try the units from the year down (what C15 excludes).
convert_relative_date_year_first(relative_date, now) ==
    IF Contains(KwInstants, Lower(relative_date)) THEN FormatDateTime(now)
    ELSE LET num == FirstNumber(relative_date) IN
         IF num < 0 THEN DateInconnue
         ELSE IF Contains(KwAn, relative_date)
              THEN FormatDate(now - 365 * num * SecondsPerDay)
         ELSE IF Contains(KwMois, relative_date)
              THEN FormatDate(now - 30 * num * SecondsPerDay)
         ELSE IF Contains(KwJour, relative_date)
              THEN FormatDate(now - num * SecondsPerDay)
         ELSE IF Contains(KwHeure, relative_date)
              THEN FormatDateTime(now - num * SecondsPerHour)
         ELSE IF Contains(KwMinute, relative_date)
              THEN FormatDateTime(now - num * SecondsPerMinute)
         ELSE DateInconnue

\* now is the wall clock in whole seconds (strftime drops the microseconds).
convert_relative_date(relative_date, now) ==
    IF Contains(KwInstants, Lower(relative_date)) THEN FormatDateTime(now)
    ELSE LET num == FirstNumber(relative_date) IN
         IF num < 0 THEN DateInconnue
         ELSE IF Contains(KwMinute, relative_date)
              THEN FormatDateTime(now - num * SecondsPerMinute)
         ELSE IF Contains(KwHeure, relative_date)
              THEN FormatDateTime(now - num * SecondsPerHour)
         ELSE IF Contains(KwJour, relative_date)
              THEN FormatDate(now - num * SecondsPerDay)
         ELSE IF Contains(KwMois, relative_date)
              THEN FormatDate(now - 30 * num * SecondsPerDay)
         ELSE IF Contains(KwAn, relative_date)
              THEN FormatDate(now - 365 * num * SecondsPerDay)
         ELSE DateInconnue

\* ------------------------------------------------------------------- state
VARIABLES
    variant,             \* the script that runs (its file name)
    pc,                  \* position of the script
    start_page,          \* page range of the run
    end_page,
    page,                \* page of the discovery loop
    sessions,            \* navigator sessions created so far: "open" or "quit"
    driver,              \* the session the running function holds (0: none)
    navlog,              \* every driver.get issued, in order
    served,              \* what the site answered for each discovery page, in order
    listings,            \* listing elements of the current page still to extract
    page_data,           \* moteur: rows of the current page (scrape_page's data)
    data,                \* basic rows accumulated by discovery
    listing_id_counter,  \* avito ordinal counter
    clock,               \* wall clock, whole seconds
    csvfile,             \* the intermediate basic CSV: <<>> or <<[header, rows]>>
    basic_data,          \* rows the detail phase iterates over
    idx,                 \* 1-based position of the detail loop in basic_data
    detailed_data,       \* combined rows accumulated for the sink
    sink,                \* what was handed to the tabular writer: <<>> or <<[header, rows]>>
    detail_page,         \* the detail page being visited, as the site served it
    images,              \* image elements of the page still to harvest
    img_index,           \* enumerate() index of the next image element
    images_paths,        \* avito: relative paths of the images written so far
    image_count,         \* moteur: number of images written so far
    files,               \* image files on disk: [dir, name, complete]
    folders,             \* image folders created on disk
    attempts,            \* every download_image call: [listing, pos, fetched, ok, file]
    visits,              \* outcome of every detail visit, in order
    gallery_limit,       \* most image elements a detail page of the site holds
    calls,               \* calls of the pure helpers still to make: [fn, text, num]
    returns,             \* the calls made, with what each returned: [fn, text, num, ret]
    asked                \* the last two answers get_page_range read: [a, b, message]

discVars ==
    <<start_page, end_page, page, served, listings, page_data, data, listing_id_counter,
      clock, csvfile>>

detVars ==
    <<basic_data, idx, detailed_data, sink, detail_page, images, img_index, images_paths,
      image_count, files, folders, attempts, visits, gallery_limit>>

fnVars == <<calls, returns, asked>>

vars == <<variant, pc, sessions, driver, navlog, discVars, detVars, fnVars>>

\* Wall-clock samples a run may start at (seconds; day 400 keeps every date positive).
T0 == 34563723
T1 == 34560005
Times == {T0, T1}

\* time.sleep(3) after the scroll of a discovery page
PageScrollDelay == 3
\* time.sleep(3) after driver.get of a detail page
DetailSettleDelay == 3

AvitoRangeVariants == {"avito_initial"}
AvitoSingleVariants == {"avito_scraper"}
AvitoDiscoveryVariants == AvitoRangeVariants \cup AvitoSingleVariants

\* ---------------------------------------------------- avito listing cards
\* A card is what the selectors of one <a> listing element find: each field is the
\* list find_elements returns (empty, or the element's text), href is the attribute
\* (empty for None), and throws says that a lookup on the element raises.
TitleClio == <<"C", "l", "i", "o", " ", " ", "4", "!">>
PhraseMinutes ==
    <<"i", "l", " ", "y", " ", "a", " ", "5", " ", "m", "i", "n", "u", "t", "e", "s">>
TxtPrice == <<"9", "0", " ", "D", "H">>
TxtYear == <<"2", "0", "1", "9">>
TxtDiesel == <<"D", "i", "e", "s", "e", "l">>
TxtManuelle == <<"M", "a", "n", "u", "e", "l", "l", "e">>
TxtShop == <<"G", "a", "r", "a", "g", "e">>
UrlA == <<"u", "/", "a">>
UrlB == <<"u", "/", "b">>

CardFull ==
    [throws |-> FALSE, title |-> <<TitleClio>>, price |-> <<TxtPrice>>,
     date |-> <<PhraseMinutes>>, year |-> <<TxtYear>>, fuel |-> <<TxtDiesel>>,
     trans |-> <<TxtManuelle>>, href |-> UrlA, creator |-> <<TxtShop>>]

CardBare ==
    [throws |-> FALSE, title |-> <<>>, price |-> <<>>, date |-> <<>>, year |-> <<>>,
     fuel |-> <<>>, trans |-> <<>>, href |-> UrlB, creator |-> <<>>]

CardStale == [CardFull EXCEPT !.throws = TRUE]

AvitoCards == {CardFull, CardBare, CardStale}

\* elem.text.strip() if find_elements(...) else default
ElemText(els, default) == IF els # <<>> THEN Strip(els[1]) ELSE default

\* The row scrape_avito appends for a card that raises nothing.
AvitoRow(card, counter, now) ==
    LET title == ElemText(card.title, NA)
        pub_date_raw == ElemText(card.date, NA)
    IN  <<counter,
          title,
          ElemText(card.price, PrixNonSpecifie),
          convert_relative_date(pub_date_raw, now),
          ElemText(card.year, NA),
          ElemText(card.fuel, NA),
          ElemText(card.trans, NA),
          ElemText(card.creator, Particulier),
          IF card.href # <<>> THEN card.href ELSE NA,
          create_folder_name(title, counter)>>

\* Non-empty lists of at most n elements of S.
SeqsUpTo(S, n) == UNION {[1..k -> S] : k \in 1..n}

\* What one discovery page may answer.
AvitoPageContents ==
    {[kind |-> k, cards |-> <<>>] : k \in {"get_raises", "timeout", "page_error", "no_listings"}}
        \cup {[kind |-> "listings", cards |-> c] : c \in SeqsUpTo(AvitoCards, MaxListings)}

\* ----------------------------------------------------------- get_page_range
\* One answer typed at an input() prompt: an integer, or text int() rejects.
Inputs ==
    {[numeric |-> TRUE, val |-> v] : v \in (-1)..MaxPage} \cup {[numeric |-> FALSE, val |-> 0]}

\* The second prompt is not reached when int() rejected the first answer.
NotAsked == [numeric |-> FALSE, val |-> 0]

SecondInputs(a) == IF a.numeric THEN Inputs ELSE {NotAsked}

\* The warnings of get_page_range, by their telling word.
MsgPositifs == "positifs"
MsgInferieure == "inferieure"
MsgValides == "valides"
NoMessage == ""

\* The warning printed for the two answers, none when the pair is returned.
PageRangeMessage(a, b) ==
    IF ~a.numeric \/ ~b.numeric THEN MsgValides
    ELSE IF a.val <= 0 \/ b.val <= 0 THEN MsgPositifs
    ELSE IF a.val > b.val THEN MsgInferieure
    ELSE NoMessage

\* get_page_range without the test start_page > end_page.
PageRangeOfUnordered(a, b) ==
    IF ~a.numeric THEN <<>>
    ELSE IF ~b.numeric THEN <<>>
    ELSE IF a.val <= 0 \/ b.val <= 0 THEN <<>>
    ELSE <<a.val, b.val>>

\* The pair get_page_range returns for the two answers, <<>> when it asks again.
PageRangeOf(a, b) ==
    IF ~a.numeric THEN <<>>
    ELSE IF ~b.numeric THEN <<>>
    ELSE IF a.val <= 0 \/ b.val <= 0 THEN <<>>
    ELSE IF a.val > b.val THEN <<>>
    ELSE <<a.val, b.val>>

\* ------------------------------------------------- avito ListingDiscoverer
\* setup_driver() of a function: a new session, held by the function.
OpenSession == Append(sessions, "open")

QuitSession(id) == [sessions EXCEPT ![id] = "quit"]

\* A page loop that would end at the first page without listings (what C10 excludes).
AfterPageStopOnEmpty(p) ==
    IF listings = <<>> \/ p + 1 > end_page THEN "disc_quit" ELSE "disc_page"

\* Where the page loop goes once the body of page p has ended.
AfterPage(p) == IF p + 1 > end_page THEN "disc_quit" ELSE "disc_page"

\* A counter that would advance for a dropped listing too (what C4 excludes).
CounterAlways(card, counter) == counter + 1

\* listing_id_counter after one listing element has been handled.
CounterAfter(card, counter) == IF card.throws THEN counter ELSE counter + 1

\* An except clause that would lose the rows collected so far (what C12 excludes).
DataAfterLossy(card, counter, now) ==
    IF card.throws THEN <<>> ELSE Append(data, AvitoRow(card, counter, now))

\* data after one listing element has been handled.
DataAfter(card, counter, now) ==
    IF card.throws THEN data ELSE Append(data, AvitoRow(card, counter, now))

\* scrape_avito up to the page loop: driver, empty data, counter 1.
AvitoScrapeStart ==
    /\ pc = "scrape_avito"
    /\ variant \in AvitoDiscoveryVariants
    /\ sessions' = OpenSession
    /\ driver' = Len(sessions) + 1
    /\ data' = <<>>
    /\ listing_id_counter' = 1
    /\ page' = IF variant \in AvitoSingleVariants THEN 1 ELSE start_page
    /\ pc' = "disc_page"
    /\ UNCHANGED <<variant, fnVars, detVars, navlog, start_page, end_page, served, listings,
                   page_data, clock, csvfile>>

\* One page of avito_initial.scrape_avito: get, wait for the container, scroll, find.
AvitoLoadPageRange ==
    /\ pc = "disc_page"
    /\ variant \in AvitoRangeVariants
    /\ navlog' = Append(navlog, [session |-> driver, kind |-> "page", target |-> page])
    /\ \E content \in AvitoPageContents :
        /\ served' = Append(served, [page |-> page, kind |-> content.kind, cards |-> content.cards])
        /\ \/ /\ content.kind = "get_raises"
              /\ pc' = "crashed"
              /\ UNCHANGED <<page, listings, clock>>
           \/ /\ content.kind \in {"timeout", "page_error"}
              /\ page' = page + 1
              /\ pc' = AfterPage(page)
              /\ UNCHANGED <<listings, clock>>
           \/ /\ content.kind = "no_listings"
              /\ page' = page + 1
              /\ pc' = AfterPage(page)
              /\ clock' = clock + PageScrollDelay
              /\ UNCHANGED listings
           \/ /\ content.kind = "listings"
              /\ listings' = content.cards
              /\ clock' = clock + PageScrollDelay
              /\ pc' = "disc_listings"
              /\ UNCHANGED page
    /\ UNCHANGED <<variant, fnVars, detVars, sessions, driver, start_page, end_page, page_data, data,
                   listing_id_counter, csvfile>>

\* The one page of avito_scraper.scrape_avito.
AvitoLoadPageSingle ==
    /\ pc = "disc_page"
    /\ variant \in AvitoSingleVariants
    /\ navlog' = Append(navlog, [session |-> driver, kind |-> "page", target |-> page])
    /\ \E content \in AvitoPageContents :
        /\ served' = Append(served, [page |-> page, kind |-> content.kind, cards |-> content.cards])
        /\ \/ /\ content.kind = "get_raises"
              /\ pc' = "crashed"
              /\ UNCHANGED <<sessions, listings, clock>>
           \/ /\ content.kind = "timeout"
              /\ sessions' = QuitSession(driver)
              /\ pc' = "disc_returned"
              /\ UNCHANGED <<listings, clock>>
           \/ /\ content.kind = "page_error"
              /\ pc' = "disc_quit"
              /\ UNCHANGED <<sessions, listings, clock>>
           \/ /\ content.kind = "no_listings"
              /\ sessions' = QuitSession(driver)
              /\ clock' = clock + PageScrollDelay
              /\ pc' = "disc_returned"
              /\ UNCHANGED listings
           \/ /\ content.kind = "listings"
              /\ listings' = content.cards
              /\ clock' = clock + PageScrollDelay
              /\ pc' = "disc_listings"
              /\ UNCHANGED sessions
    /\ UNCHANGED <<variant, fnVars, detVars, driver, start_page, end_page, page, page_data, data,
                   listing_id_counter, csvfile>>

\* One iteration of `for listing in listings`, with its try/except.
AvitoExtractListing ==
    /\ pc = "disc_listings"
    /\ variant \in AvitoDiscoveryVariants
    /\ listings # <<>>
    /\ data' = DataAfter(Head(listings), listing_id_counter, clock)
    /\ listing_id_counter' = CounterAfter(Head(listings), listing_id_counter)
    /\ listings' = Tail(listings)
    /\ IF Tail(listings) # <<>>
       THEN UNCHANGED <<pc, page>>
       ELSE IF variant \in AvitoRangeVariants
            THEN page' = page + 1 /\ pc' = AfterPage(page)
            ELSE pc' = "disc_quit" /\ UNCHANGED page
    /\ UNCHANGED <<variant, fnVars, detVars, sessions, driver, navlog, start_page, end_page, served,
                   page_data, clock, csvfile>>

\* driver.quit(); return data
AvitoScrapeReturn ==
    /\ pc = "disc_quit"
    /\ variant \in AvitoDiscoveryVariants
    /\ sessions' = QuitSession(driver)
    /\ pc' = "disc_returned"
    /\ UNCHANGED <<variant, fnVars, detVars, driver, navlog, discVars>>

\* ------------------------------------------------------- initial scripts
InitialVariants == {"avito_initial", "moteur_initial"}

\* get_page_range of the select-pages scripts: asks until the two answers are a valid
\* range.
GetPageRange ==
    /\ pc = "get_page_range"
    /\ \E a \in Inputs :
        \E b \in SecondInputs(a) :
            /\ asked' = <<[a |-> a, b |-> b, message |-> PageRangeMessage(a, b)]>>
            /\ IF PageRangeOf(a, b) = <<>>
               THEN UNCHANGED <<pc, start_page, end_page>>
               ELSE /\ start_page' = PageRangeOf(a, b)[1]
                    /\ end_page' = PageRangeOf(a, b)[2]
                    /\ pc' = IF variant \in AvitoDiscoveryVariants THEN "scrape_avito"
                             ELSE IF variant = "moteur_initial" THEN "setup"
                             ELSE "load"
    /\ UNCHANGED <<variant, calls, returns, detVars, sessions, driver, navlog, page, served,
                   listings, page_data, data, listing_id_counter, clock, csvfile>>

AvitoBasicHeader ==
    <<"ID", "Titre", "Prix", "Date de publication", "Année", "Type de carburant",
      "Transmission", "Créateur", "URL de l'annonce", "Dossier d'images">>

\* csv.writer writes str() of each cell: the integer ID becomes its decimal text.
AvitoCsvRow(row) == [row EXCEPT ![1] = IntToStr(row[1])]

AvitoCsvRows(rows) == [i \in 1..Len(rows) |-> AvitoCsvRow(rows[i])]

\* avito_initial.main after scrape_avito: nothing is saved for an empty result.
AvitoInitialSave ==
    /\ pc = "disc_returned"
    /\ variant = "avito_initial"
    /\ IF data = <<>>
       THEN UNCHANGED csvfile
       ELSE csvfile' = <<[header |-> AvitoBasicHeader, rows |-> AvitoCsvRows(data)]>>
    /\ pc' = "done"
    /\ UNCHANGED <<variant, fnVars, detVars, sessions, driver, navlog, start_page, end_page, page, served,
                   listings, page_data, data, listing_id_counter, clock>>

\* ------------------------------------------------ moteur ListingDiscoverer
MoteurRangeVariants == {"moteur_initial"}
MoteurSingleVariants == {"moteur_scraper"}
MoteurDiscoveryVariants == MoteurRangeVariants \cup MoteurSingleVariants

DetailAnnonce == <<"/", "d", "e", "t", "a", "i", "l", "-", "a", "n", "n", "o", "n", "c", "e", "/">>

\* Length of the maximal digit run that starts s.
RECURSIVE DigitRunLen(_)
DigitRunLen(s) == IF s # <<>> /\ Head(s) \in Digits THEN 1 + DigitRunLen(Tail(s)) ELSE 0

\* Whether r"/detail-annonce/(\d+)/" matches url at offset i (0-based).
IdMatchAt(url, i) ==
    /\ i + Len(DetailAnnonce) <= Len(url)
    /\ SubSeq(url, i + 1, i + Len(DetailAnnonce)) = DetailAnnonce
    /\ LET rest == SubSeq(url, i + Len(DetailAnnonce) + 1, Len(url))
           n == DigitRunLen(rest)
       IN  n >= 1 /\ n < Len(rest) /\ rest[n + 1] = "/"

\* re.search(r"/detail-annonce/(\d+)/", url): group 1 of the leftmost match, else "N/A".
extract_id_from_url(url) ==
    IF \E i \in 0..Len(url) : IdMatchAt(url, i)
    THEN LET i == CHOOSE k \in 0..Len(url) :
                      IdMatchAt(url, k) /\ \A j \in 0..(k - 1) : ~IdMatchAt(url, j)
             rest == SubSeq(url, i + Len(DetailAnnonce) + 1, Len(url))
         IN  SubSeq(rest, 1, DigitRunLen(rest))
    ELSE NA

\* re.match(r"^(19|20)\d{2}$", text)
IsYearText(t) ==
    /\ Len(t) = 4
    /\ SubSeq(t, 1, 2) \in {<<"1", "9">>, <<"2", "0">>}
    /\ t[3] \in Digits
    /\ t[4] \in Digits

FuelWords ==
    {<<"e", "s", "s", "e", "n", "c", "e">>,
     <<"d", "i", "e", "s", "e", "l">>,
     <<"h", "y", "b", "r", "i", "d", "e">>,
     <<"é", "l", "e", "c", "t", "r", "i", "q", "u", "e">>}

ForbiddenCityValues ==
    {<<"A", "p", "p", "e", "l", "e", "r", " ", "p", "o", "u", "r", " ", "l", "e", " ", "p", "r", "i", "x">>,
     <<"S", "e", " ", "f", "a", "i", "r", "e", " ", "r", "a", "p", "p", "e", "l", "e", "r">>,
     <<"B", "o", "o", "s", "t", "e", "r", " ", "l", "'", "a", "n", "n", "o", "n", "c", "e">>,
     <<>>}

\* str.capitalize()
Capitalize(s) ==
    IF s = <<>> THEN <<>> ELSE <<UpperChar(s[1])>> \o Lower(Tail(s))

\* The loop over the <li> texts of a card: acc is [year, fuel, city].
RECURSIVE MetaScan(_, _)
MetaScan(lis, acc) ==
    IF lis = <<>> THEN acc
    ELSE LET text == Strip(Head(lis)) IN
         MetaScan(Tail(lis),
                  IF IsYearText(text) THEN [acc EXCEPT !.year = text]
                  ELSE IF Lower(text) \in FuelWords THEN [acc EXCEPT !.fuel = Capitalize(text)]
                  ELSE IF acc.city = NA /\ text \notin ForbiddenCityValues
                       THEN [acc EXCEPT !.city = text]
                  ELSE acc)

\* A moteur card: title text, link (empty when the <a> lookup raises), price (empty
\* when the lookup raises), the <li> texts; throws: the title lookup raises.
MTitle == <<"d", "a", "c", "i", "a", " ", " ", "l", "o", "g", "a", "n", " ", "2", " ">>
MUrlA == <<"m", "/", "d", "e", "t", "a", "i", "l", "-", "a", "n", "n", "o", "n", "c", "e", "/", "4", "2", "/", "a">>
MUrlB == <<"m", "/", "a", "n", "n", "o", "n", "c", "e", "/", "7", "/">>
MTxtCity == <<"R", "a", "b", "a", "t">>

MCardFull ==
    [throws |-> FALSE, title |-> MTitle, link |-> <<MUrlA>>, price |-> <<TxtPrice>>,
     meta |-> <<TxtYear, TxtDiesel, MTxtCity>>]

MCardBare ==
    [throws |-> FALSE, title |-> TitleClio, link |-> <<MUrlB>>, price |-> <<>>,
     meta |-> <<>>]

\* A card whose <a> lookup raises: the row has neither link nor ID.
MCardNoLink == [MCardFull EXCEPT !.link = <<>>]

MCardStale == [MCardFull EXCEPT !.throws = TRUE]

MoteurCards == {MCardFull, MCardBare, MCardStale}

\* The row (dict, in column order ID, Titre, Prix, Année, Type de carburant, Ville,
\* URL de l'annonce) scrape_page appends for a card that raises nothing.
MoteurRow(card) ==
    LET link == IF card.link # <<>> THEN card.link[1] ELSE NA
        ad_id == IF card.link # <<>> THEN extract_id_from_url(card.link[1]) ELSE NA
        meta == MetaScan(card.meta, [year |-> NA, fuel |-> NA, city |-> NA])
    IN  <<ad_id,
          Strip(card.title),
          IF card.price # <<>> THEN Strip(card.price[1]) ELSE NA,
          meta.year,
          meta.fuel,
          meta.city,
          link>>

MoteurPageContents ==
    {[kind |-> k, cards |-> <<>>] : k \in {"get_raises", "timeout", "find_raises", "no_listings"}}
        \cup {[kind |-> "listings", cards |-> c] : c \in SeqsUpTo(MoteurCards, MaxListings)}

\* Where moteur_initial's page loop goes once page p has been scraped.
MAfterPage(p) ==
    IF variant \in MoteurSingleVariants THEN "m_listed"
    ELSE IF p + 1 > end_page THEN "m_loop_done" ELSE "m_page"

\* page_data.insert(0, ...) in place of append: the page's rows in reverse DOM order.
PageDataAfterPrepend(card) ==
    IF card.throws THEN page_data ELSE <<MoteurRow(card)>> \o page_data

\* page_data after one car element has been handled.
PageDataAfter(card) == IF card.throws THEN page_data ELSE Append(page_data, MoteurRow(card))

\* main of moteur_initial and moteur_scraper: driver = setup_driver(), then the scan
\* from start_page, or of page 1 alone.
MoteurSetup ==
    /\ pc = "setup"
    /\ variant \in MoteurDiscoveryVariants
    /\ sessions' = OpenSession
    /\ driver' = Len(sessions) + 1
    /\ data' = <<>>
    /\ page' = IF variant \in MoteurSingleVariants THEN 1 ELSE start_page
    /\ pc' = "m_page"
    /\ UNCHANGED <<variant, fnVars, detVars, navlog, start_page, end_page, served, listings, page_data,
                   listing_id_counter, clock, csvfile>>

\* scrape_page / scrape_listings_page up to the loop over the cars.  An exception of
\* driver.get or find_elements leaves the function; main's except prints it and the
\* finally clause quits the driver.
MoteurLoadPage ==
    /\ pc = "m_page"
    /\ variant \in MoteurDiscoveryVariants
    /\ navlog' = Append(navlog, [session |-> driver, kind |-> "page", target |-> page])
    /\ \E content \in MoteurPageContents :
        /\ served' = Append(served, [page |-> page, kind |-> content.kind, cards |-> content.cards])
        /\ \/ /\ content.kind \in {"get_raises", "find_raises"}
              /\ sessions' = QuitSession(driver)
              /\ pc' = "done"
              /\ UNCHANGED <<page, listings, page_data, clock>>
           \/ /\ content.kind = "timeout"
              /\ page' = page + 1
              /\ pc' = MAfterPage(page)
              /\ UNCHANGED <<sessions, listings, page_data, clock>>
           \/ /\ content.kind = "no_listings"
              /\ page' = page + 1
              /\ pc' = MAfterPage(page)
              /\ clock' = clock + PageScrollDelay
              /\ UNCHANGED <<sessions, listings, page_data>>
           \/ /\ content.kind = "listings"
              /\ listings' = content.cards
              /\ page_data' = <<>>
              /\ pc' = "m_cars"
              /\ UNCHANGED <<sessions, page, clock>>
    /\ UNCHANGED <<variant, fnVars, detVars, driver, start_page, end_page, data, listing_id_counter, csvfile>>

\* One iteration of `for car in car_elements`; after the last one scrape_page sleeps
\* and returns, and the caller extends all_data with the page's rows.
MoteurExtractCar ==
    /\ pc = "m_cars"
    /\ variant \in MoteurDiscoveryVariants
    /\ listings # <<>>
    /\ listings' = Tail(listings)
    /\ IF Tail(listings) # <<>>
       THEN /\ page_data' = PageDataAfter(Head(listings))
            /\ UNCHANGED <<pc, page, data, clock>>
       ELSE /\ page_data' = <<>>
            /\ data' = data \o PageDataAfter(Head(listings))
            /\ clock' = clock + PageScrollDelay
            /\ page' = page + 1
            /\ pc' = MAfterPage(page)
    /\ UNCHANGED <<variant, fnVars, detVars, sessions, driver, navlog, start_page, end_page, served,
                   listing_id_counter, csvfile>>

MoteurBasicHeader ==
    <<"ID", "Titre", "Prix", "Année", "Type de carburant", "Ville", "URL de l'annonce">>

\* moteur_initial.main after the page loop; the finally clause quits the driver.
MoteurInitialSave ==
    /\ pc = "m_loop_done"
    /\ variant = "moteur_initial"
    /\ IF data = <<>>
       THEN UNCHANGED csvfile
       ELSE csvfile' = <<[header |-> MoteurBasicHeader, rows |-> data]>>
    /\ sessions' = QuitSession(driver)
    /\ pc' = "done"
    /\ UNCHANGED <<variant, fnVars, detVars, driver, navlog, start_page, end_page, page, served, listings,
                   page_data, data, listing_id_counter, clock>>

\* --------------------------------------------------------- ImageHarvester
KwPng == <<"p", "n", "g">>
ExtPng == <<".", "p", "n", "g">>
ExtJpg == <<".", "j", "p", "g">>
CtPng == <<"i", "m", "a", "g", "e", "/", "p", "n", "g">>
CtJpeg == <<"i", "m", "a", "g", "e", "/", "j", "p", "e", "g">>
ImgUrlA == <<"h", "t", "t", "p", ":", "/", "/", "i", ".", "m", "a", "/", "a", ".", "p", "n", "g">>
ImgUrlB == <<"h", "t", "t", "p", ":", "/", "/", "i", ".", "m", "a", "/", "b", ".", "j", "p", "e", "g", "?", "v", "=", "1">>

\* f"image_{i+1}"
ImageName(p) == <<"i", "m", "a", "g", "e", "_">> \o IntToStr(p)

\* os.path.join(a, b) for a relative b
PathJoin(a, b) == a \o <<"/">> \o b

\* ", ".join(parts)
RECURSIVE Join(_)
Join(parts) ==
    IF parts = <<>> THEN <<>>
    ELSE IF Len(parts) = 1 THEN parts[1]
    ELSE parts[1] \o <<",", " ">> \o Join(Tail(parts))

\* An <img> element of a detail page: src is the attribute (<<>> for None), stale says
\* get_attribute raises, fetch is how the HTTP transfer of src goes ("conn_error":
\* requests.get raises, "http_error": an error status, "write_fail": the body breaks
\* while the file is written, "ok"), ctype the Content-Type of the response.
ImgPng == [src |-> <<ImgUrlA>>, stale |-> FALSE, fetch |-> "ok", ctype |-> CtPng]
ImgJpeg == [src |-> <<ImgUrlB>>, stale |-> FALSE, fetch |-> "ok", ctype |-> CtJpeg]
ImgConnError == [src |-> <<ImgUrlA>>, stale |-> FALSE, fetch |-> "conn_error", ctype |-> <<>>]
ImgHttpError == [src |-> <<ImgUrlA>>, stale |-> FALSE, fetch |-> "http_error", ctype |-> CtJpeg]
ImgWriteFail == [src |-> <<ImgUrlA>>, stale |-> FALSE, fetch |-> "write_fail", ctype |-> CtJpeg]
ImgNoSrc == [src |-> <<>>, stale |-> FALSE, fetch |-> "ok", ctype |-> CtJpeg]
ImgStale == [src |-> <<ImgUrlA>>, stale |-> TRUE, fetch |-> "ok", ctype |-> CtJpeg]

ImageElems ==
    {ImgPng, ImgJpeg, ImgConnError, ImgHttpError, ImgWriteFail, ImgNoSrc, ImgStale}

\* Lists of at most n elements of S, the empty one included.
ListsUpTo(S, n) == {<<>>} \cup SeqsUpTo(S, n)

\* extension avito's download_image derives from the Content-Type header
AvitoExtension(ctype) == IF Contains(KwPng, ctype) THEN ExtPng ELSE ExtJpg

\* A download_image that would return the file name although the write broke off
\* (what C7 excludes).
AvitoDownloadImageEager(img, image_name) ==
    LET filename == image_name \o AvitoExtension(img.ctype) IN
    IF img.fetch \in {"conn_error", "http_error"}
    THEN [fetched |-> FALSE, ret |-> <<>>, file |-> <<>>]
    ELSE [fetched |-> TRUE, ret |-> <<filename>>,
          file |-> <<[name |-> filename, complete |-> img.fetch = "ok"]>>]

\* avito download_image(image_url, folder_path, image_name): what it returns (ret:
\* <<>> for None, else <<file name>>) and the file it leaves in folder_path (file:
\* <<>> for none, else <<[name, complete]>>).
AvitoDownloadImage(img, image_name) ==
    LET filename == image_name \o AvitoExtension(img.ctype) IN
    IF img.fetch \in {"conn_error", "http_error"}
    THEN [fetched |-> FALSE, ret |-> <<>>, file |-> <<>>]
    ELSE IF img.fetch = "write_fail"
    THEN [fetched |-> TRUE, ret |-> <<>>, file |-> <<[name |-> filename, complete |-> FALSE]>>]
    ELSE [fetched |-> TRUE, ret |-> <<filename>>,
          file |-> <<[name |-> filename, complete |-> TRUE]>>]

\* The disk after open(path, 'wb') and the writes: the path's previous file is replaced.
FilesAfter(dir, written) ==
    IF written = <<>> THEN files
    ELSE {f \in files : ~(f.dir = dir /\ f.name = written[1].name)}
             \cup {[dir |-> dir, name |-> written[1].name, complete |-> written[1].complete]}

\* ------------------------------------------------- avito DetailExtractor
LblAnneeModele == <<"A", "n", "n", "é", "e", "-", "M", "o", "d", "è", "l", "e">>
LblTypeVehicule == <<"T", "y", "p", "e", " ", "d", "e", " ", "v", "é", "h", "i", "c", "u", "l", "e">>
LblCategorie == <<"C", "a", "t", "é", "g", "o", "r", "i", "e">>
LblKilometrage == <<"K", "i", "l", "o", "m", "é", "t", "r", "a", "g", "e">>
LblMarque == <<"M", "a", "r", "q", "u", "e">>
LblModele == <<"M", "o", "d", "è", "l", "e">>
LblPortes == <<"N", "o", "m", "b", "r", "e", " ", "d", "e", " ", "p", "o", "r", "t", "e", "s">>
LblOrigine == <<"O", "r", "i", "g", "i", "n", "e">>
LblPremiereMain == <<"P", "r", "e", "m", "i", "è", "r", "e", " ", "m", "a", "i", "n">>
LblPuissance == <<"P", "u", "i", "s", "s", "a", "n", "c", "e", " ", "f", "i", "s", "c", "a", "l", "e">>
LblEtat == <<"É", "t", "a", "t">>
LblSecteur == <<"S", "e", "c", "t", "e", "u", "r">>
LblTypeDe == <<"T", "y", "p", "e", " ", "d", "e">>
LblAnnee == <<"A", "n", "n", "é", "e">>
LblCouleur == <<"C", "o", "u", "l", "e", "u", "r">>

\* text.split(',')[0]
RECURSIVE BeforeFirst(_, _)
BeforeFirst(s, sep) ==
    IF s = <<>> \/ Head(s) = sep THEN <<>> ELSE <<Head(s)>> \o BeforeFirst(Tail(s), sep)

\* The twelve enrichment slots, all "N/A" before resolution begins.
AvitoDefaultSlots ==
    [car_type |-> NA, location |-> NA, mileage |-> NA, brand |-> NA, model |-> NA,
     doors |-> NA, origin |-> NA, first_hand |-> NA, fiscal_power |-> NA,
     condition |-> NA, equipment_text |-> NA, seller_city |-> NA]

\* The location lookup: the element's text, and the city before its first comma.
AvitoLocate(pg, slots) ==
    IF pg.location = <<>> THEN slots
    ELSE LET location == Strip(pg.location[1]) IN
         [slots EXCEPT !.location = location,
                       !.seller_city =
                           IF "," \in {location[i] : i \in 1..Len(location)}
                           THEN BeforeFirst(location, ",") ELSE location]

\* A chain without its first branch: "Année-Modèle" falls through to "Modèle".
AvitoApplyPairNoYearBranch(pair, slots) ==
    LET value == Strip(pair.value)
        label == Strip(pair.label)
    IN  IF pair.throws THEN slots
        ELSE IF Contains(LblTypeVehicule, label) \/ Contains(LblCategorie, label)
             THEN [slots EXCEPT !.car_type = value]
        ELSE IF Contains(LblKilometrage, label) THEN [slots EXCEPT !.mileage = value]
        ELSE IF Contains(LblMarque, label) THEN [slots EXCEPT !.brand = value]
        ELSE IF Contains(LblModele, label) THEN [slots EXCEPT !.model = value]
        ELSE IF Contains(LblPortes, label) THEN [slots EXCEPT !.doors = value]
        ELSE IF Contains(LblOrigine, label) THEN [slots EXCEPT !.origin = value]
        ELSE IF Contains(LblPremiereMain, label) THEN [slots EXCEPT !.first_hand = value]
        ELSE IF Contains(LblPuissance, label) THEN [slots EXCEPT !.fiscal_power = value]
        ELSE IF Contains(LblEtat, label) THEN [slots EXCEPT !.condition = value]
        ELSE IF Contains(LblSecteur, label) THEN [slots EXCEPT !.location = value]
        ELSE slots

\* The if/elif chain on one label/value pair.
AvitoApplyPair(pair, slots) ==
    LET value == Strip(pair.value)
        label == Strip(pair.label)
    IN  IF pair.throws THEN slots
        ELSE IF Contains(LblAnneeModele, label) THEN slots
        ELSE IF Contains(LblTypeVehicule, label) \/ Contains(LblCategorie, label)
             THEN [slots EXCEPT !.car_type = value]
        ELSE IF Contains(LblKilometrage, label) THEN [slots EXCEPT !.mileage = value]
        ELSE IF Contains(LblMarque, label) THEN [slots EXCEPT !.brand = value]
        ELSE IF Contains(LblModele, label) THEN [slots EXCEPT !.model = value]
        ELSE IF Contains(LblPortes, label) THEN [slots EXCEPT !.doors = value]
        ELSE IF Contains(LblOrigine, label) THEN [slots EXCEPT !.origin = value]
        ELSE IF Contains(LblPremiereMain, label) THEN [slots EXCEPT !.first_hand = value]
        ELSE IF Contains(LblPuissance, label) THEN [slots EXCEPT !.fiscal_power = value]
        ELSE IF Contains(LblEtat, label) THEN [slots EXCEPT !.condition = value]
        ELSE IF Contains(LblSecteur, label) THEN [slots EXCEPT !.location = value]
        ELSE slots

\* A scan that the first raising block would end (what C20 excludes).
RECURSIVE AvitoLabelScanStop(_, _)
AvitoLabelScanStop(pairs, slots) ==
    IF pairs = <<>> \/ Head(pairs).throws THEN slots
    ELSE AvitoLabelScanStop(Tail(pairs), AvitoApplyPair(Head(pairs), slots))

\* for element in detail_elements, in DOM order
RECURSIVE AvitoLabelScan(_, _)
AvitoLabelScan(pairs, slots) ==
    IF pairs = <<>> THEN slots
    ELSE AvitoLabelScan(Tail(pairs), AvitoApplyPair(Head(pairs), slots))

\* The category fallback, tried only while car_type is still "N/A".
AvitoCategoryFallback(pg, slots) ==
    IF slots.car_type = NA /\ pg.category # <<>>
    THEN [slots EXCEPT !.car_type = Strip(pg.category[1])]
    ELSE slots

\* The value-only leaves kept as equipment: the parent's text names no labelled line.
RECURSIVE EquipmentList(_)
EquipmentList(eqs) ==
    IF eqs = <<>> THEN <<>>
    ELSE LET eq == Head(eqs) IN
         IF ~Contains(LblTypeDe, eq.parent) /\ ~Contains(LblAnnee, eq.parent)
                /\ ~Contains(LblMarque, eq.parent)
         THEN <<Strip(eq.text)>> \o EquipmentList(Tail(eqs))
         ELSE EquipmentList(Tail(eqs))

AvitoEquipment(pg, slots) ==
    IF pg.equip_raises \/ EquipmentList(pg.equipment) = <<>> THEN slots
    ELSE [slots EXCEPT !.equipment_text = Join(EquipmentList(pg.equipment))]

\* A field block that would look the location element up after the label scan.
AvitoSlotsLocateLast(pg) ==
    IF pg.pairs_raises THEN AvitoLocate(pg, AvitoDefaultSlots)
    ELSE AvitoEquipment(pg, AvitoCategoryFallback(pg,
             AvitoLocate(pg, AvitoLabelScan(pg.pairs, AvitoDefaultSlots))))

\* The field block of scrape_details: an exception of the pair lookup ends the block
\* with the slots resolved so far.
AvitoSlots(pg) ==
    LET located == AvitoLocate(pg, AvitoDefaultSlots) IN
    IF pg.pairs_raises THEN located
    ELSE AvitoEquipment(pg, AvitoCategoryFallback(pg, AvitoLabelScan(pg.pairs, located)))

\* The slots in the order of the returned list.
AvitoSlotList(sl) ==
    <<sl.car_type, sl.location, sl.mileage, sl.brand, sl.model, sl.doors, sl.origin,
      sl.first_hand, sl.fiscal_power, sl.condition, sl.equipment_text, sl.seller_city>>

\* ["N/A"] * 12
NATwelve == [i \in 1..12 |-> NA]

\* What scrape_details returns when the field block was reached.
AvitoDetails(v, pg, folder_name, paths) ==
    IF v = "avito_scraper"
    THEN AvitoSlotList(AvitoSlots(pg)) \o <<folder_name, Join(paths)>>
    ELSE AvitoSlotList(AvitoSlots(pg)) \o <<folder_name>>

\* What the outer except of scrape_details returns.
AvitoFailDetails(v, folder_name) ==
    IF v = "avito_scraper" THEN NATwelve \o <<folder_name, <<>> >>
    ELSE NATwelve \o <<folder_name>>

\* Detail pages of the site.  mode: "ok", "get_raises" (driver.get raises) or
\* "scroll_raises" (the scroll script raises); location, category: the element's text
\* if found; pairs: the label/value blocks in DOM order (throws: a lookup in the block
\* raises); equipment: the value-only leaves with their parent's text.
TxtLocation == <<" ", "R", "a", "b", "a", "t", ",", " ", "A", "g", "d", "a", "l">>
TxtDacia == <<"D", "a", "c", "i", "a">>
TxtHay == <<"H", "a", "y">>
TxtAbs == <<"A", "B", "S">>

AvitoPageRich ==
    [location |-> <<TxtLocation>>,
     pairs_raises |-> FALSE,
     pairs |-> <<[label |-> LblMarque, value |-> TxtDacia, throws |-> FALSE],
                 [label |-> LblCouleur, value |-> TxtHay, throws |-> FALSE],
                 [label |-> LblSecteur, value |-> TxtHay, throws |-> FALSE],
                 [label |-> LblModele, value |-> TxtDacia, throws |-> TRUE],
                 [label |-> LblAnneeModele, value |-> TxtYear, throws |-> FALSE]>>,
     category |-> <<>>,
     equip_raises |-> FALSE,
     equipment |-> <<[text |-> TxtAbs, parent |-> TxtAbs],
                     [text |-> TxtDacia, parent |-> LblMarque \o TxtDacia]>>]

AvitoPageBlank ==
    [location |-> <<>>, pairs_raises |-> FALSE, pairs |-> <<>>, category |-> <<>>,
     equip_raises |-> FALSE, equipment |-> <<>>]

AvitoPageBroken ==
    [location |-> <<TxtLocation>>, pairs_raises |-> TRUE, pairs |-> <<>>,
     category |-> <<>>, equip_raises |-> FALSE, equipment |-> <<>>]

AvitoDetailPages == {AvitoPageRich, AvitoPageBlank, AvitoPageBroken}

NoPage == [mode |-> "none"]

\* What a detail URL may answer on a site whose galleries hold at most n images: any
\* of the pages with a gallery of at most MaxGallery images, the rich page with any
\* gallery.
AvitoDetailAnswers(n) ==
    {[mode |-> m, fields |-> AvitoPageBlank, img_find_raises |-> FALSE, imgs |-> <<>>] :
        m \in {"get_raises", "scroll_raises"}}
    \cup {[mode |-> "ok", fields |-> f, img_find_raises |-> FALSE, imgs |-> g] :
            f \in AvitoDetailPages, g \in ListsUpTo(ImageElems, Min(n, MaxGallery))}
    \cup {[mode |-> "ok", fields |-> AvitoPageRich, img_find_raises |-> FALSE, imgs |-> g] :
            g \in ListsUpTo(ImageElems, n)}
    \cup {[mode |-> "ok", fields |-> AvitoPageBlank, img_find_raises |-> TRUE, imgs |-> <<>>]}

\* -------------------------------------------- avito PipelineOrchestrator
AvitoDetailVariants == {"avito_main", "avito_scraper"}

AvitoCompleteHeader ==
    <<"ID", "Titre", "Prix", "Date de publication", "Année", "Type de carburant",
      "Transmission", "Créateur", "Type de véhicule", "Secteur", "Kilométrage", "Marque",
      "Modèle", "Nombre de portes", "Origine", "Première main", "Puissance fiscale",
      "État", "Équipements", "Ville du vendeur", "Dossier d'images">>

\* row[:8] + details
AvitoCombine(row, details) == SubSeq(row, 1, Min(8, Len(row))) \o details

\* Position of the detail loop once the row at position i has been handled.
AfterListing(i) == IF i + 1 > Len(basic_data) THEN "det_finish" ELSE "det_get"

\* The record kept of a detail visit: what failed ("none", "navigation": driver.get
\* raised, "page": a later page-level call raised), how the visit ended ("ok": the
\* extractor returned its record; "aborted": it returned the all-unknown record;
\* "raised": the exception left it), the folder it made, the gallery the page held,
\* the paths it kept, and the fields of the page it read (none when no page was read).
Visit(cause, outcome, folder_name, gallery, paths) ==
    [cause |-> cause, outcome |-> outcome, folder |-> folder_name, imgs |-> gallery,
     paths |-> paths,
     fields |-> IF detail_page.mode = "ok" THEN <<detail_page.fields>> ELSE <<>>]

\* The locals of a detail visit, gone when the visit returns.
NoVisit ==
    /\ detail_page' = NoPage
    /\ images' = <<>>
    /\ img_index' = 0
    /\ images_paths' = <<>>
    /\ image_count' = 0

MainVariants == {"avito_main", "moteur_main"}

\* main of the detail scripts after get_page_range: the input file must exist and,
\* read with csv.reader (every cell stays the text that was written), hold rows.
MainLoad ==
    /\ pc = "load"
    /\ variant \in MainVariants
    /\ IF csvfile = <<>>
       THEN pc' = "done" /\ UNCHANGED basic_data
       ELSE /\ basic_data' = csvfile[1].rows
            /\ pc' = IF csvfile[1].rows = <<>> THEN "done"
                     ELSE IF variant = "avito_main" THEN "det_start" ELSE "mdet_start"
    /\ UNCHANGED <<variant, fnVars, sessions, driver, navlog, discVars, idx, detailed_data, sink,
                   detail_page, images, img_index, images_paths, image_count, files,
                   folders, attempts, visits, gallery_limit>>

\* A main that would go on to the detail step whatever discovery returned (what C11
\* excludes).
AvitoScraperCheckEager ==
    /\ pc = "disc_returned"
    /\ variant = "avito_scraper"
    /\ pc' = "det_start"
    /\ basic_data' = data
    /\ UNCHANGED <<variant, fnVars, sessions, driver, navlog, discVars, idx, detailed_data, sink,
                   detail_page, images, img_index, images_paths, image_count, files,
                   folders, attempts, visits, gallery_limit>>

\* avito_scraper.main after scrape_avito: an empty result ends the run.
AvitoScraperCheck ==
    /\ pc = "disc_returned"
    /\ variant = "avito_scraper"
    /\ IF data = <<>>
       THEN pc' = "done" /\ UNCHANGED basic_data
       ELSE pc' = "det_start" /\ basic_data' = data
    /\ UNCHANGED <<variant, fnVars, sessions, driver, navlog, discVars, idx, detailed_data, sink,
                   detail_page, images, img_index, images_paths, image_count, files,
                   folders, attempts, visits, gallery_limit>>

\* process_detailed_data / main step 2 up to the loop: a driver and an empty batch.
AvitoDetailStart ==
    /\ pc = "det_start"
    /\ variant \in AvitoDetailVariants
    /\ sessions' = OpenSession
    /\ driver' = Len(sessions) + 1
    /\ detailed_data' = <<>>
    /\ idx' = 1
    /\ pc' = "det_get"
    /\ UNCHANGED <<variant, fnVars, navlog, discVars, basic_data, sink, detail_page, images,
                   img_index, images_paths, image_count, files, folders, attempts,
                   visits, gallery_limit>>

\* scrape_details up to the image loop.  driver.get stands before the try: what it
\* raises leaves scrape_details and its caller.  The scroll is inside the try: what it
\* raises is turned into the all-"N/A" list, which the caller merges.
AvitoDetailGet ==
    /\ pc = "det_get"
    /\ variant \in AvitoDetailVariants
    /\ LET row == basic_data[idx]
           url == row[9]
           folder_name == row[10]
       IN
       /\ navlog' = Append(navlog, [session |-> driver, kind |-> "detail", target |-> url])
       /\ \E answer \in AvitoDetailAnswers(gallery_limit) :
            \/ /\ answer.mode = "get_raises"
               /\ visits' = Append(visits, Visit("navigation", "raised", <<>>, <<>>, <<>>))
               /\ pc' = "crashed"
               /\ UNCHANGED <<idx, detailed_data, detail_page, images, img_index,
                              images_paths, image_count, folders, clock>>
            \/ /\ answer.mode = "scroll_raises"
               /\ folders' = folders \cup {folder_name}
               /\ visits' = Append(visits, Visit("page", "aborted", folder_name, <<>>, <<>>))
               /\ detailed_data' =
                      Append(detailed_data,
                             AvitoCombine(row, AvitoFailDetails(variant, folder_name)))
               /\ idx' = idx + 1
               /\ pc' = AfterListing(idx)
               /\ clock' = clock + DetailSettleDelay
               /\ NoVisit
            \/ /\ answer.mode = "ok"
               /\ folders' = folders \cup {folder_name}
               /\ detail_page' = answer
               /\ images' = IF answer.img_find_raises THEN <<>> ELSE answer.imgs
               /\ img_index' = 0
               /\ images_paths' = <<>>
               /\ pc' = IF answer.img_find_raises \/ answer.imgs = <<>>
                        THEN "det_fields" ELSE "det_images"
               /\ clock' = clock + DetailSettleDelay
               /\ UNCHANGED <<idx, detailed_data, image_count, visits>>
    /\ UNCHANGED <<variant, fnVars, sessions, driver, start_page, end_page, page, served, listings,
                   page_data, data, listing_id_counter, csvfile, basic_data, sink, files,
                   attempts, gallery_limit>>

\* A numbering by the count of images written so far (what C8 excludes).
ImagePositionDense(i) == Len(images_paths) + image_count + 1

\* The position enumerate() index i gets in a file name: f"image_{i+1}"
ImagePosition(i) == i + 1

\* Position, in the gallery as the page served it, of the element now at the head of
\* images.
OriginalPosition == Len(detail_page.imgs) - Len(images) + 1

\* images_paths after download_image returned ret
PathsAfter(folder_name, ret) ==
    IF ret # <<>> THEN Append(images_paths, PathJoin(folder_name, ret[1])) ELSE images_paths

\* One iteration of `for i, img in enumerate(image_elements)`, with its try/except.
AvitoHarvestImage ==
    /\ pc = "det_images"
    /\ variant \in AvitoDetailVariants
    /\ images # <<>>
    /\ LET img == Head(images)
           folder_name == basic_data[idx][10]
           got == AvitoDownloadImage(img, ImageName(ImagePosition(img_index)))
       IN
       IF img.stale \/ img.src = <<>>
       THEN UNCHANGED <<images_paths, files, attempts>>
       ELSE /\ images_paths' = PathsAfter(folder_name, got.ret)
            /\ files' = FilesAfter(folder_name, got.file)
            /\ attempts' = Append(attempts,
                                  [listing |-> idx, pos |-> OriginalPosition,
                                   fetched |-> got.fetched, ok |-> got.ret # <<>>,
                                   file |-> got.file])
    /\ images' = Tail(images)
    /\ img_index' = img_index + 1
    /\ pc' = IF Tail(images) = <<>> THEN "det_fields" ELSE "det_images"
    /\ UNCHANGED <<variant, fnVars, sessions, driver, navlog, discVars, basic_data, idx,
                   detailed_data, sink, detail_page, image_count, folders, visits,
                   gallery_limit>>

\* The rest of scrape_details (fields, return) and the caller's merge of the result.
AvitoDetailReturn ==
    /\ pc = "det_fields"
    /\ variant \in AvitoDetailVariants
    /\ LET row == basic_data[idx]
           details == AvitoDetails(variant, detail_page.fields, row[10], images_paths)
       IN  detailed_data' = Append(detailed_data, AvitoCombine(row, details))
    /\ visits' = Append(visits, Visit("none", "ok", basic_data[idx][10],
                                       detail_page.imgs, images_paths))
    /\ idx' = idx + 1
    /\ pc' = AfterListing(idx)
    /\ NoVisit
    /\ UNCHANGED <<variant, fnVars, sessions, driver, navlog, discVars, basic_data, sink, files,
                   folders, attempts, gallery_limit>>

\* After the loop: driver.quit() and the batch write.  avito_scraper.main then formats
\* its closing message with the name kafka_topic, which nothing defines: NameError.
AvitoDetailFinish ==
    /\ pc = "det_finish"
    /\ variant \in AvitoDetailVariants
    /\ sessions' = QuitSession(driver)
    /\ sink' = <<[header |-> AvitoCompleteHeader, rows |-> detailed_data]>>
    /\ pc' = IF variant = "avito_scraper" THEN "crashed" ELSE "done"
    /\ UNCHANGED <<variant, fnVars, driver, navlog, discVars, basic_data, idx, detailed_data,
                   detail_page, images, img_index, images_paths, image_count, files,
                   folders, attempts, visits, gallery_limit>>

\* ------------------------------------------------ moteur IdentityAssigner
\* unicodedata.normalize('NFKD', c).encode('ASCII', 'ignore'): the base letter of an
\* accented letter, the character itself when ASCII, nothing otherwise.
AsciiFold(c) ==
    IF c \in {"é", "è"} THEN <<"e">>
    ELSE IF c = "É" THEN <<"E">>
    ELSE IF c = "à" THEN <<"a">>
    ELSE IF c = "¤" THEN <<>>
    ELSE <<c>>

RECURSIVE FoldAll(_)
FoldAll(s) == IF s = <<>> THEN <<>> ELSE AsciiFold(Head(s)) \o FoldAll(Tail(s))

\* re.sub(r'[^\w\s-]', '_', filename)
ReplaceNonWord(s) ==
    [i \in 1..Len(s) |->
        IF IsWordChar(s[i]) \/ IsSpace(s[i]) \/ s[i] = "-" THEN s[i] ELSE "_"]

sanitize_filename(filename) == CollapseSpaces(FoldAll(ReplaceNonWord(filename)))

\* f"{ad_id}_{sanitize_filename(title)}"
MoteurFolderName(ad_id, title) == ad_id \o <<"_">> \o sanitize_filename(title)

\* ------------------------------------------------- moteur ImageHarvester
KwHttp == <<"h", "t", "t", "p">>
ExtDefault == <<"j", "p", "g">>
MaxExtensionLen == 5

\* s.split(sep)[-1] for a one-character sep
RECURSIVE AfterLast(_, _)
AfterLast(s, sep) ==
    IF \E i \in 1..Len(s) : s[i] = sep
    THEN AfterLast(SubSeq(s, (CHOOSE i \in 1..Len(s) : s[i] = sep) + 1, Len(s)), sep)
    ELSE s

\* file_extension of moteur's download_image
MoteurExtension(url) ==
    LET tail == AfterLast(url, ".")
        ext == IF Contains(<<"?">>, tail) THEN BeforeFirst(tail, "?") ELSE tail
    IN  IF ext = <<>> \/ Len(ext) > MaxExtensionLen THEN ExtDefault ELSE ext

\* A download_image that would let a failed fetch raise (what C9 excludes).
MoteurDownloadImageRaising(img, index) ==
    LET filename == ImageName(index) \o <<".">> \o MoteurExtension(img.src[1]) IN
    IF img.fetch \in {"conn_error", "http_error"}
    THEN [raised |-> TRUE, fetched |-> FALSE, ret |-> FALSE, file |-> <<>>]
    ELSE [raised |-> FALSE, fetched |-> TRUE, ret |-> img.fetch = "ok",
          file |-> <<[name |-> filename, complete |-> img.fetch = "ok"]>>]

\* moteur download_image(url, folder_path, index): what it returns and the file it
\* leaves in folder_path.  The whole body is inside its try, so raised is FALSE.
MoteurDownloadImage(img, index) ==
    LET filename == ImageName(index) \o <<".">> \o MoteurExtension(img.src[1]) IN
    IF img.fetch \in {"conn_error", "http_error"}
    THEN [raised |-> FALSE, fetched |-> FALSE, ret |-> FALSE, file |-> <<>>]
    ELSE IF img.fetch = "write_fail"
    THEN [raised |-> FALSE, fetched |-> TRUE, ret |-> FALSE,
          file |-> <<[name |-> filename, complete |-> FALSE]>>]
    ELSE [raised |-> FALSE, fetched |-> TRUE, ret |-> TRUE,
          file |-> <<[name |-> filename, complete |-> TRUE]>>]

\* ------------------------------------------------- moteur DetailExtractor
MLblBoite == <<"B", "o", "i", "t", "e", " ", "d", "e", " ", "v", "i", "t", "e", "s", "s", "e", "s">>
MLblCarburant == <<"C", "a", "r", "b", "u", "r", "a", "n", "t">>
MLblDedouane == <<"V", "é", "h", "i", "c", "u", "l", "e", " ", "d", "é", "d", "o", "u", "a", "n", "é">>
\* the check mark U+2714 that leads an equipment text, written here as a Latin-1 sign
CheckMark == "¤"

\* str.split(): the maximal runs of non-whitespace characters
RECURSIVE Split(_)
Split(s) ==
    LET t == LStrip(s) IN
    IF t = <<>> THEN <<>>
    ELSE LET n == IF \E i \in 1..Len(t) : IsSpace(t[i])
                  THEN (CHOOSE i \in 1..Len(t) :
                            IsSpace(t[i]) /\ \A j \in 1..(i - 1) : ~IsSpace(t[j])) - 1
                  ELSE Len(t)
         IN  <<SubSeq(t, 1, n)>> \o Split(SubSeq(t, n + 1, Len(t)))

\* The three lookups of the creator: pg.creator1..3 are what each find_element gives
\* (<<>>: it raises).  The second is tried when the first gave the text "N/A"; the
\* third when the first or the second raised.
MoteurCreator(pg) ==
    LET third == IF pg.creator3 # <<>> THEN Strip(pg.creator3[1]) ELSE NA IN
    IF pg.creator1 = <<>> THEN third
    ELSE IF Strip(pg.creator1[1]) # NA THEN Strip(pg.creator1[1])
    ELSE IF pg.creator2 = <<>>
         THEN IF pg.creator3 # <<>> THEN Strip(pg.creator3[1]) ELSE NA
    ELSE Strip(pg.creator2[1])

MoteurDefaultSlots(pg) ==
    [mileage |-> NA, transmission |-> ElemText(pg.transmission, NA), fuel_type |-> NA,
     fiscal_power |-> NA, doors |-> NA, first_hand |-> NA, dedouane |-> NA]

\* One detail line with at least two spans, through the if/elif chain of variant v.
MoteurApplyLine(v, line, slots) ==
    LET key == Strip(line.spans[1])
        value == Strip(line.spans[2])
    IN  IF Contains(LblKilometrage, key) THEN [slots EXCEPT !.mileage = value]
        ELSE IF v = "moteur_main" /\ Contains(LblAnnee, key) THEN slots
        ELSE IF Contains(MLblBoite, key) THEN [slots EXCEPT !.transmission = value]
        ELSE IF Contains(MLblCarburant, key) THEN [slots EXCEPT !.fuel_type = value]
        ELSE IF Contains(LblPuissance, key) THEN [slots EXCEPT !.fiscal_power = value]
        ELSE IF Contains(LblPortes, key) THEN [slots EXCEPT !.doors = value]
        ELSE IF Contains(LblPremiereMain, key) THEN [slots EXCEPT !.first_hand = value]
        ELSE IF Contains(MLblDedouane, key) THEN [slots EXCEPT !.dedouane = value]
        ELSE slots

RECURSIVE MoteurLineScan(_, _, _)
MoteurLineScan(v, lines, slots) ==
    IF lines = <<>> THEN slots
    ELSE MoteurLineScan(v, Tail(lines),
                        IF Head(lines).throws \/ Len(Head(lines).spans) < 2 THEN slots
                        ELSE MoteurApplyLine(v, Head(lines), slots))

\* element.text.strip() without a leading check mark
EquipmentItem(text) ==
    LET t == Strip(text) IN
    IF t # <<>> /\ t[1] = CheckMark THEN Strip(Tail(t)) ELSE t

\* equipment_text: moteur_main joins the div.option_ad texts, moteur_scraper takes
\* the text of the description block.
MoteurEquipment(v, pg) ==
    IF v = "moteur_main"
    THEN IF pg.equip_raises THEN NA
         ELSE Join([i \in 1..Len(pg.equipment) |-> EquipmentItem(pg.equipment[i])])
    ELSE ElemText(pg.description, NA)

\* brand and model from the title
MoteurBrand(title) == IF Len(Split(title)) >= 2 THEN Upper(Split(title)[1]) ELSE NA
MoteurModel(title) == IF Len(Split(title)) >= 2 THEN Capitalize(Split(title)[2]) ELSE NA

MoteurCompleteHeader ==
    <<"ID", "Titre", "Prix", "Date de publication", "Type de carburant", "Transmission",
      "Créateur", "Secteur", "Kilométrage", "Marque", "Modèle", "Nombre de portes",
      "Première main", "Puissance fiscale", "Équipements", "Ville du vendeur",
      "Dossier d'images", "Dédouané">>

\* The 13 values moteur_main's scrape_detail_page returns.
MoteurDetails(pg, title, folder_name) ==
    LET sl == MoteurLineScan("moteur_main", pg.lines, MoteurDefaultSlots(pg))
        seller_city == ElemText(pg.city, NA)
    IN  <<seller_city, sl.mileage, MoteurBrand(title), MoteurModel(title), sl.doors,
          sl.first_hand, sl.fiscal_power, MoteurEquipment("moteur_main", pg), seller_city,
          folder_name, sl.dedouane, sl.transmission, MoteurCreator(pg)>>

\* ["N/A"] * 12 + ["N/A"]
MoteurFailDetails == [i \in 1..13 |-> NA]

\* combined_data of moteur_main.process_detailed_data
MoteurCombine(row, car_details) ==
    <<row[1], row[2], row[3], row[4], row[5], car_details[12], car_details[13]>>
        \o SubSeq(car_details, 1, 11)

\* The dict moteur_scraper's scrape_detail_page returns, as its values in key order.
MoteurScraperDetail(pg, row, folder_name, now) ==
    LET sl == MoteurLineScan("moteur_scraper", pg.lines, MoteurDefaultSlots(pg))
        seller_city == ElemText(pg.city, NA)
    IN  <<row[1], row[2], row[3], FormatDate(now), sl.fuel_type, sl.transmission,
          MoteurCreator(pg), seller_city, sl.mileage, MoteurBrand(row[2]),
          MoteurModel(row[2]), sl.doors, sl.first_hand, sl.fiscal_power,
          MoteurEquipment("moteur_scraper", pg), seller_city, folder_name, sl.dedouane>>

MoteurScraperFailDetail(row, now) ==
    <<row[1], row[2], row[3], FormatDate(now)>> \o [i \in 1..14 |-> NA]

\* The output row of variant v for a visit that returned normally / was aborted.
MoteurOutRow(v, pg, row, folder_name, now) ==
    IF v = "moteur_main"
    THEN MoteurCombine(row, MoteurDetails(pg, row[2], folder_name))
    ELSE MoteurScraperDetail(pg, row, folder_name, now)

MoteurFailRow(v, row, now) ==
    IF v = "moteur_main" THEN MoteurCombine(row, MoteurFailDetails)
    ELSE MoteurScraperFailDetail(row, now)

\* moteur detail pages
TxtKm == <<"1", "2", " ", "0", "0", "0">>
TxtCreator == <<" ", "A", "u", "t", "o", " ", "H", "a", "l", "l", " ">>
TxtEquip == <<"¤", " ", "C", "l", "i", "m">>

MoteurPageRich ==
    [creator1 |-> <<NA>>, creator2 |-> <<>>, creator3 |-> <<TxtCreator>>,
     transmission |-> <<TxtManuelle>>,
     lines |-> <<[throws |-> FALSE, spans |-> <<LblKilometrage, TxtKm>>],
                 [throws |-> TRUE, spans |-> <<>>],
                 [throws |-> FALSE, spans |-> <<MLblCarburant>>],
                 [throws |-> FALSE, spans |-> <<MLblCarburant, TxtDiesel>>]>>,
     equip_raises |-> FALSE, equipment |-> <<TxtEquip, TxtAbs>>,
     description |-> <<TxtEquip>>, city |-> <<MTxtCity>>]

MoteurPageBlank ==
    [creator1 |-> <<>>, creator2 |-> <<>>, creator3 |-> <<>>, transmission |-> <<>>,
     lines |-> <<>>, equip_raises |-> FALSE, equipment |-> <<>>, description |-> <<>>,
     city |-> <<>>]

MoteurPageBroken ==
    [MoteurPageBlank EXCEPT !.creator1 = <<TxtCreator>>, !.equip_raises = TRUE]

MoteurDetailPages == {MoteurPageRich, MoteurPageBlank, MoteurPageBroken}

\* What a detail URL may answer ("lines_raise": the detail_line lookup raises, after
\* the folder was made).
MoteurDetailAnswers(n) ==
    {[mode |-> m, fields |-> MoteurPageBlank, img_find_raises |-> FALSE, imgs |-> <<>>] :
        m \in {"get_raises", "lines_raise"}}
    \cup {[mode |-> "ok", fields |-> f, img_find_raises |-> FALSE, imgs |-> g] :
            f \in MoteurDetailPages, g \in ListsUpTo(ImageElems, Min(n, MaxGallery))}
    \cup {[mode |-> "ok", fields |-> MoteurPageRich, img_find_raises |-> FALSE, imgs |-> g] :
            g \in ListsUpTo(ImageElems, n)}
    \cup {[mode |-> "ok", fields |-> MoteurPageBlank, img_find_raises |-> TRUE, imgs |-> <<>>]}

\* No helper is called on its own.
NoCalls ==
    /\ calls = <<>>
    /\ returns = <<>>
    /\ asked = <<>>

\* No detail phase has run.
DetailIdle ==
    /\ basic_data = <<>>
    /\ idx = 0
    /\ detailed_data = <<>>
    /\ sink = <<>>
    /\ detail_page = NoPage
    /\ images = <<>>
    /\ img_index = 0
    /\ images_paths = <<>>
    /\ image_count = 0
    /\ files = {}
    /\ folders = {}
    /\ attempts = <<>>
    /\ visits = <<>>

InitDiscovery ==
    /\ variant \in InitialVariants
    /\ pc = "get_page_range"
    /\ start_page = 0
    /\ end_page = 0
    /\ page = 0
    /\ sessions = <<>>
    /\ driver = 0
    /\ navlog = <<>>
    /\ served = <<>>
    /\ listings = <<>>
    /\ page_data = <<>>
    /\ data = <<>>
    /\ listing_id_counter = 0
    /\ clock = T0
    /\ csvfile = <<>>
    /\ DetailIdle
    /\ NoCalls
    /\ gallery_limit = 0

NextDiscovery ==
    \/ GetPageRange
    \/ AvitoScrapeStart
    \/ AvitoLoadPageRange
    \/ AvitoExtractListing
    \/ AvitoScrapeReturn
    \/ AvitoInitialSave
    \/ MoteurSetup
    \/ MoteurLoadPage
    \/ MoteurExtractCar
    \/ MoteurInitialSave

SpecDiscovery == InitDiscovery /\ [][NextDiscovery]_vars

\* ------------------------------------------- moteur PipelineOrchestrator
MoteurDetailVariants == {"moteur_main", "moteur_scraper"}

\* time.sleep(2) between two listings of moteur_scraper
ListingPause == 2

\* moteur_scraper.main after scrape_listings_page: no listing ends the run.
MoteurScraperCheck ==
    /\ pc = "m_listed"
    /\ variant = "moteur_scraper"
    /\ IF data = <<>>
       THEN /\ sessions' = QuitSession(driver)
            /\ pc' = "done"
            /\ UNCHANGED <<basic_data, idx>>
       ELSE /\ basic_data' = data
            /\ idx' = 1
            /\ pc' = "mdet_get"
            /\ UNCHANGED sessions
    /\ UNCHANGED <<variant, fnVars, driver, navlog, discVars, detailed_data, sink, detail_page,
                   images, img_index, images_paths, image_count, files, folders, attempts,
                   visits, gallery_limit>>

\* moteur_main.process_detailed_data up to the loop.
MoteurDetailStart ==
    /\ pc = "mdet_start"
    /\ variant = "moteur_main"
    /\ sessions' = OpenSession
    /\ driver' = Len(sessions) + 1
    /\ detailed_data' = <<>>
    /\ idx' = 1
    /\ pc' = "mdet_get"
    /\ UNCHANGED <<variant, fnVars, navlog, discVars, basic_data, sink, detail_page, images,
                   img_index, images_paths, image_count, files, folders, attempts,
                   visits, gallery_limit>>

MAfterListing(i) == IF i + 1 > Len(basic_data) THEN "mdet_finish" ELSE "mdet_get"

\* The clock once a visit that took `spent` seconds is over.
MClockAfter(spent) ==
    clock + spent + (IF variant = "moteur_scraper" THEN ListingPause ELSE 0)

\* scrape_detail_page up to the image loop; all of it is inside the function's try,
\* so whatever raises yields the all-"N/A" record.  An unusable URL makes
\* driver.get raise.
MoteurDetailGet ==
    /\ pc = "mdet_get"
    /\ variant \in MoteurDetailVariants
    /\ LET row == basic_data[idx]
           url == row[7]
           folder_name == MoteurFolderName(row[1], row[2])
       IN
       /\ navlog' = Append(navlog, [session |-> driver, kind |-> "detail", target |-> url])
       /\ \E answer \in MoteurDetailAnswers(gallery_limit) :
            /\ url = NA => answer.mode = "get_raises"
            /\ \/ /\ answer.mode = "get_raises"
                  /\ visits' = Append(visits, Visit("navigation", "aborted", <<>>, <<>>, <<>>))
                  /\ detailed_data' = Append(detailed_data, MoteurFailRow(variant, row, clock))
                  /\ idx' = idx + 1
                  /\ pc' = MAfterListing(idx)
                  /\ clock' = MClockAfter(0)
                  /\ NoVisit
                  /\ UNCHANGED folders
               \/ /\ answer.mode = "lines_raise"
                  /\ folders' = folders \cup {folder_name}
                  /\ visits' = Append(visits, Visit("page", "aborted", folder_name, <<>>, <<>>))
                  /\ detailed_data' =
                         Append(detailed_data,
                                MoteurFailRow(variant, row, clock + DetailSettleDelay))
                  /\ idx' = idx + 1
                  /\ pc' = MAfterListing(idx)
                  /\ clock' = MClockAfter(DetailSettleDelay)
                  /\ NoVisit
               \/ /\ answer.mode = "ok"
                  /\ folders' = folders \cup {folder_name}
                  /\ detail_page' = answer
                  /\ images' = IF answer.img_find_raises THEN <<>> ELSE answer.imgs
                  /\ img_index' = 0
                  /\ image_count' = 0
                  /\ pc' = IF answer.img_find_raises \/ answer.imgs = <<>>
                           THEN "mdet_fields" ELSE "mdet_images"
                  /\ clock' = clock + DetailSettleDelay
                  /\ UNCHANGED <<idx, detailed_data, images_paths, visits>>
    /\ UNCHANGED <<variant, fnVars, sessions, driver, start_page, end_page, page, served, listings,
                   page_data, data, listing_id_counter, csvfile, basic_data, sink, files,
                   attempts, gallery_limit>>

\* One iteration of `for index, img in enumerate(image_elements)`.  The loop has no
\* try of its own: what get_attribute or download_image raises ends the loop.
MoteurHarvestImage ==
    /\ pc = "mdet_images"
    /\ variant \in MoteurDetailVariants
    /\ images # <<>>
    /\ LET img == Head(images)
           row == basic_data[idx]
           folder_name == MoteurFolderName(row[1], row[2])
           got == MoteurDownloadImage(img, ImagePosition(img_index))
           usable == img.src # <<>> /\ Contains(KwHttp, img.src[1])
           raised == img.stale \/ (usable /\ got.raised)
       IN
       /\ IF img.stale \/ ~usable
          THEN UNCHANGED <<image_count, files, attempts>>
          ELSE /\ image_count' = IF ~got.raised /\ got.ret THEN image_count + 1
                                 ELSE image_count
               /\ files' = FilesAfter(folder_name, got.file)
               /\ attempts' = Append(attempts,
                                     [listing |-> idx, pos |-> OriginalPosition,
                                      fetched |-> got.fetched,
                                      ok |-> ~got.raised /\ got.ret,
                                      file |-> got.file])
       /\ images' = IF raised THEN <<>> ELSE Tail(images)
       /\ pc' = IF raised \/ Tail(images) = <<>> THEN "mdet_fields" ELSE "mdet_images"
    /\ img_index' = img_index + 1
    /\ UNCHANGED <<variant, fnVars, sessions, driver, navlog, discVars, basic_data, idx,
                   detailed_data, sink, detail_page, images_paths, folders, visits,
                   gallery_limit>>

\* The return of scrape_detail_page and the caller's append of the output row.
MoteurDetailReturn ==
    /\ pc = "mdet_fields"
    /\ variant \in MoteurDetailVariants
    /\ LET row == basic_data[idx]
           folder_name == MoteurFolderName(row[1], row[2])
       IN
       /\ detailed_data' =
              Append(detailed_data,
                     MoteurOutRow(variant, detail_page.fields, row, folder_name, clock))
       /\ visits' = Append(visits, Visit("none", "ok", folder_name, detail_page.imgs, <<>>))
    /\ idx' = idx + 1
    /\ pc' = MAfterListing(idx)
    /\ clock' = MClockAfter(0)
    /\ NoVisit
    /\ UNCHANGED <<variant, fnVars, sessions, driver, navlog, start_page, end_page, page, served,
                   listings, page_data, data, listing_id_counter, csvfile, basic_data,
                   sink, files, folders, attempts, gallery_limit>>

\* After the loop: the batch is written (csv.writer.writerows, or a DataFrame of the
\* dicts written with to_csv) and the driver quits.
MoteurDetailFinish ==
    /\ pc = "mdet_finish"
    /\ variant \in MoteurDetailVariants
    /\ sessions' = QuitSession(driver)
    /\ sink' = <<[header |-> MoteurCompleteHeader, rows |-> detailed_data]>>
    /\ pc' = "done"
    /\ UNCHANGED <<variant, fnVars, driver, navlog, discVars, basic_data, idx, detailed_data,
                   detail_page, images, img_index, images_paths, image_count, files,
                   folders, attempts, visits, gallery_limit>>

\* ------------------------------------------------------------- the runs
AvitoBasicFiles ==
    {<<[header |-> AvitoBasicHeader,
        rows |-> AvitoCsvRows([i \in 1..Len(c) |-> AvitoRow(c[i], i, t)])]>> :
        c \in SeqsUpTo({CardFull, CardBare}, MaxListings), t \in {T1}}

MoteurBasicFiles ==
    {<<[header |-> MoteurBasicHeader, rows |-> [i \in 1..Len(c) |-> MoteurRow(c[i])]]>> :
        c \in SeqsUpTo({MCardFull, MCardBare, MCardNoLink}, MaxListings)}

\* The detail scripts start at T0 from a file an initial script wrote at T1, or from
\* none; the complete scripts start from nothing.
Init ==
    /\ variant \in {"avito_main", "moteur_main", "avito_scraper", "moteur_scraper"}
    /\ pc = IF variant \in MainVariants THEN "get_page_range"
            ELSE IF variant = "avito_scraper" THEN "scrape_avito" ELSE "setup"
    /\ start_page = 0
    /\ end_page = 0
    /\ page = 0
    /\ sessions = <<>>
    /\ driver = 0
    /\ navlog = <<>>
    /\ served = <<>>
    /\ listings = <<>>
    /\ page_data = <<>>
    /\ data = <<>>
    /\ listing_id_counter = 0
    /\ clock \in IF variant \in MainVariants THEN {T0} ELSE Times
    /\ csvfile \in IF variant = "avito_main" THEN AvitoBasicFiles \cup {<<>>}
                   ELSE IF variant = "moteur_main" THEN MoteurBasicFiles \cup {<<>>}
                   ELSE {<<>>}
    /\ DetailIdle
    /\ NoCalls
    /\ gallery_limit = MaxGallery

Next ==
    \/ GetPageRange
    \/ MainLoad
    \/ AvitoScrapeStart
    \/ AvitoLoadPageSingle
    \/ AvitoExtractListing
    \/ AvitoScrapeReturn
    \/ AvitoScraperCheck
    \/ AvitoDetailStart
    \/ AvitoDetailGet
    \/ AvitoHarvestImage
    \/ AvitoDetailReturn
    \/ AvitoDetailFinish
    \/ MoteurSetup
    \/ MoteurLoadPage
    \/ MoteurExtractCar
    \/ MoteurScraperCheck
    \/ MoteurDetailStart
    \/ MoteurDetailGet
    \/ MoteurHarvestImage
    \/ MoteurDetailReturn
    \/ MoteurDetailFinish

Spec == Init /\ [][Next]_vars

\* One listing whose gallery holds up to MaxImages elements.
InitHarvest ==
    /\ variant \in {"avito_main", "moteur_main"}
    /\ pc = "get_page_range"
    /\ start_page = 0
    /\ end_page = 0
    /\ page = 0
    /\ sessions = <<>>
    /\ driver = 0
    /\ navlog = <<>>
    /\ served = <<>>
    /\ listings = <<>>
    /\ page_data = <<>>
    /\ data = <<>>
    /\ listing_id_counter = 0
    /\ clock = T0
    /\ csvfile = IF variant = "avito_main"
                 THEN <<[header |-> AvitoBasicHeader,
                         rows |-> AvitoCsvRows(<<AvitoRow(CardFull, 1, T0)>>)]>>
                 ELSE <<[header |-> MoteurBasicHeader, rows |-> <<MoteurRow(MCardFull)>>]>>
    /\ DetailIdle
    /\ NoCalls
    /\ gallery_limit = MaxImages

NextHarvest ==
    \/ GetPageRange
    \/ MainLoad
    \/ AvitoDetailStart
    \/ AvitoDetailGet
    \/ AvitoHarvestImage
    \/ AvitoDetailReturn
    \/ AvitoDetailFinish
    \/ MoteurDetailStart
    \/ MoteurDetailGet
    \/ MoteurHarvestImage
    \/ MoteurDetailReturn
    \/ MoteurDetailFinish

SpecHarvest == InitHarvest /\ [][NextHarvest]_vars

\* ------------------------------------------------- the helpers on their own
\* Largest ordinal a folder name is made for.
MaxOrdinal == 12
\* Largest magnitude a relative-date phrase carries.
MaxMagnitude == 12

TitleYaris == <<"T", "o", "y", "o", "t", "a", " ", "Y", "a", "r", "i", "s", " ", "2", "0", "2", "0", "!", "!">>
TitleClioPlain == <<"C", "l", "i", "o", " ", "4">>
TitleUnderscore == <<"a", "_", "b", "!">>
TitleDigit == <<"2", "x">>
TitleX == <<"x">>
TitleAccent == <<"é", "t", "é", "-", "8", "\t", " ", "z", "?">>
TitleLongA ==
    <<"M", "e", "r", "c", "e", "d", "e", "s", " ", " ", "C", "l", "a", "s", "s", "e", " ",
      "C", " ", "2", "2", "0", " ", "d", " ", "(", "A", "M", "G", " ", "L", "i", "n", "e",
      ")", " ", "P", "a", "c", "k", " ", "P", "r", "e", "m", "i", "u", "m", ",", " ", "T",
      "o", "i", "t", " ", "o", "u", "v", "r", "a", "n", "t", " ", "A", "+">>
TitleLongB ==
    <<"M", "e", "r", "c", "e", "d", "e", "s", " ", " ", "C", "l", "a", "s", "s", "e", " ",
      "C", " ", "2", "2", "0", " ", "d", " ", "(", "A", "M", "G", " ", "L", "i", "n", "e",
      ")", " ", "P", "a", "c", "k", " ", "P", "r", "e", "m", "i", "u", "m", ",", " ", "T",
      "o", "i", "t", " ", "o", "u", "v", "r", "a", "n", "t", " ", "B", "+">>

\* Titles a listing may carry: punctuation, whitespace runs, an underscore, a leading
\* digit, an accent, a hyphen and a tab, the missing-title sentinel, and two titles that
\* differ only after the first 50 characters of their sanitized forms.
Titles ==
    {TitleYaris, TitleClio, TitleClioPlain, TitleUnderscore, TitleDigit, TitleX, TitleAccent,
     NA, TitleLongA, TitleLongB}

IlYA == <<"i", "l", " ", "y", " ", "a", " ">>
WordMinutes == <<"m", "i", "n", "u", "t", "e", "s">>
WordHeures == <<"h", "e", "u", "r", "e", "s">>
WordJours == <<"j", "o", "u", "r", "s">>
WordMois == <<"m", "o", "i", "s">>
WordAns == <<"a", "n", "s">>
UnitWords == {WordMinutes, WordHeures, WordJours, WordMois, WordAns}

\* "il y a <n> <word>", the phrase of a listing published n units ago.
PhraseOf(n, word) == IlYA \o IntToStr(n) \o <<" ">> \o word

PhraseInstants == <<"i", "l", " ", "y", " ", "a", " ", "q", "u", "e", "l", "q", "u", "e", "s", " ", "i", "n", "s", "t", "a", "n", "t", "s">>
PhraseInstantsCaps == <<"I", "l", " ", "y", " ", "a", " ", "Q", "u", "e", "l", "q", "u", "e", "s", " ", "I", "n", "s", "t", "a", "n", "t", "s">>
PhraseInstantsUnit == <<"q", "u", "e", "l", "q", "u", "e", "s", " ", "i", "n", "s", "t", "a", "n", "t", "s", ",", " ", "3", " ", "m", "i", "n", "u", "t", "e", "s">>
PhraseHeuresMinutes == <<"i", "l", " ", "y", " ", "a", " ", "2", " ", "h", "e", "u", "r", "e", "s", " ", "5", " ", "m", "i", "n", "u", "t", "e", "s">>
PhraseAnMois == <<"i", "l", " ", "y", " ", "a", " ", "1", " ", "a", "n", " ", "e", "t", " ", "2", " ", "m", "o", "i", "s">>
PhraseJourAn == <<"3", " ", "j", "o", "u", "r", "s", " ", "c", "e", "t", "t", "e", " ", "a", "n", "n", "é", "e">>
PhraseMaintenant == <<"m", "a", "i", "n", "t", "e", "n", "a", "n", "t", " ", "5">>
PhraseHier == <<"h", "i", "e", "r">>
PhraseUnJour == <<"i", "l", " ", "y", " ", "a", " ", "u", "n", " ", "j", "o", "u", "r">>
PhraseYearOnly == <<"2", "0", "2", "0">>
PhraseCaps == <<"I", "L", " ", "Y", " ", "A", " ", "5", " ", "M", "I", "N", "U", "T", "E", "S">>
PhraseSlash == <<"l", "e", " ", "1", "2", "/", "0", "3">>

\* Phrases the date element may show, the raw "N/A" of a missing element and the
\* empty text included.
Phrases ==
    {PhraseOf(n, w) : n \in 0..MaxMagnitude, w \in UnitWords}
        \cup {PhraseInstants, PhraseInstantsCaps, PhraseInstantsUnit, PhraseHeuresMinutes,
              PhraseAnMois, PhraseJourAn, PhraseMaintenant, PhraseHier, PhraseUnJour,
              PhraseYearOnly, PhraseCaps, PhraseSlash, NA, <<>>}

\* Capture times of the helper runs: the samples of Times, twenty years later, so that
\* every phrase of Phrases stays after the first day.
FnTimes == {t + 20 * 365 * SecondsPerDay : t \in Times}

FolderCalls ==
    {[fn |-> "create_folder_name", text |-> t, num |-> i] : t \in Titles, i \in 1..MaxOrdinal}

DateCalls == {[fn |-> "convert_relative_date", text |-> p, num |-> 0] : p \in Phrases}

\* A run of the helpers alone: the names of two listings, or the date of one.
InitHelpers ==
    /\ variant \in AvitoDiscoveryVariants
    /\ pc = "call"
    /\ start_page = 0
    /\ end_page = 0
    /\ page = 0
    /\ sessions = <<>>
    /\ driver = 0
    /\ navlog = <<>>
    /\ served = <<>>
    /\ listings = <<>>
    /\ page_data = <<>>
    /\ data = <<>>
    /\ listing_id_counter = 0
    /\ csvfile = <<>>
    /\ DetailIdle
    /\ gallery_limit = 0
    /\ returns = <<>>
    /\ asked = <<>>
    /\ \/ /\ calls \in {<<c, d>> : c \in FolderCalls, d \in FolderCalls}
          /\ clock = T0
       \/ /\ calls \in {<<c>> : c \in DateCalls}
          /\ clock \in FnTimes

\* folder_name = create_folder_name(title, listing_id_counter)
CallCreateFolderName ==
    /\ pc = "call"
    /\ calls # <<>>
    /\ Head(calls).fn = "create_folder_name"
    /\ returns' = Append(returns,
                         [fn |-> Head(calls).fn, text |-> Head(calls).text,
                          num |-> Head(calls).num,
                          ret |-> create_folder_name(Head(calls).text, Head(calls).num)])
    /\ calls' = Tail(calls)
    /\ pc' = IF Tail(calls) = <<>> THEN "done" ELSE "call"
    /\ UNCHANGED <<variant, sessions, driver, navlog, discVars, detVars, asked>>

\* pub_date = convert_relative_date(pub_date_raw); the function reads the clock.
CallConvertRelativeDate ==
    /\ pc = "call"
    /\ calls # <<>>
    /\ Head(calls).fn = "convert_relative_date"
    /\ returns' = Append(returns,
                         [fn |-> Head(calls).fn, text |-> Head(calls).text,
                          num |-> Head(calls).num,
                          ret |-> convert_relative_date(Head(calls).text, clock)])
    /\ calls' = Tail(calls)
    /\ pc' = IF Tail(calls) = <<>> THEN "done" ELSE "call"
    /\ UNCHANGED <<variant, sessions, driver, navlog, discVars, detVars, asked>>

NextHelpers ==
    \/ CallCreateFolderName
    \/ CallConvertRelativeDate

SpecHelpers == InitHelpers /\ [][NextHelpers]_vars

\* ------------------------------------------------ the field block on its own
\* Largest number of label/value blocks, or detail lines, a detail page holds.
MaxPairs == 3

TxtGarage == <<"G", "a", "r", "a", "g", "e", " ", "M">>
TxtStock == <<"S", "t", "o", "c", "k", " ", "P", "r", "o">>
TxtBlank == <<" ">>

\* What a lookup of one element may give: it raises (<<>>), or finds the element,
\* whose text is one of texts.
LookupOf(texts) == {<<>>} \cup {<<t>> : t \in texts}

\* Label/value blocks of an avito page: labels the chain knows, one it does not know,
\* a block whose lookup raises, a block whose value is blank.
AvitoPairKinds ==
    {[label |-> LblMarque, value |-> TxtDacia, throws |-> FALSE],
     [label |-> LblSecteur, value |-> TxtHay, throws |-> FALSE],
     [label |-> LblAnneeModele, value |-> TxtYear, throws |-> FALSE],
     [label |-> LblCouleur, value |-> TxtHay, throws |-> FALSE],
     [label |-> LblModele, value |-> TxtDacia, throws |-> TRUE],
     [label |-> LblEtat, value |-> TxtBlank, throws |-> FALSE],
     [label |-> LblModele, value |-> TxtAbs, throws |-> FALSE],
     [label |-> LblMarque, value |-> TxtAbs, throws |-> FALSE]}

AvitoFieldPages ==
    {[AvitoPageBlank EXCEPT !.pairs = p, !.location = l] :
        p \in ListsUpTo(AvitoPairKinds, MaxPairs), l \in LookupOf({TxtLocation})}
        \cup {[location |-> l, pairs_raises |-> r, pairs |-> <<>>, category |-> c,
               equip_raises |-> x, equipment |-> e] :
                l \in LookupOf({TxtLocation, TxtBlank}), r \in BOOLEAN,
                c \in LookupOf({TxtHay}), x \in BOOLEAN,
                e \in {<<>>, <<[text |-> TxtAbs, parent |-> TxtAbs]>>,
                       <<[text |-> TxtDacia, parent |-> LblMarque \o TxtDacia]>>,
                       <<[text |-> TxtBlank, parent |-> TxtBlank]>>}}

\* Detail lines of a moteur page: keys the chain knows, one it does not know, a line
\* whose lookup raises, a line of one span, a line whose value is blank.
MoteurLineKinds ==
    {[throws |-> FALSE, spans |-> <<LblKilometrage, TxtKm>>],
     [throws |-> FALSE, spans |-> <<MLblCarburant, TxtDiesel>>],
     [throws |-> FALSE, spans |-> <<LblCouleur, TxtHay>>],
     [throws |-> TRUE, spans |-> <<LblPortes, TxtYear>>],
     [throws |-> FALSE, spans |-> <<MLblDedouane>>],
     [throws |-> FALSE, spans |-> <<LblPuissance, TxtBlank>>]}

MoteurFieldPages ==
    {[MoteurPageBlank EXCEPT !.creator1 = a, !.creator2 = b, !.creator3 = c] :
        a \in LookupOf({TxtCreator, NA, TxtBlank}), b \in LookupOf({TxtGarage, TxtBlank}),
        c \in LookupOf({TxtStock, TxtBlank})}
        \cup {[MoteurPageBlank EXCEPT !.lines = l] : l \in ListsUpTo(MoteurLineKinds, MaxPairs)}
        \cup {[MoteurPageRich EXCEPT !.transmission = t, !.equip_raises = x,
                                     !.equipment = e, !.city = c] :
                t \in LookupOf({TxtManuelle, TxtBlank}), x \in BOOLEAN,
                e \in {<<>>, <<TxtEquip, TxtAbs>>, <<TxtBlank>>},
                c \in LookupOf({MTxtCity, TxtBlank})}

\* A detail script that has just loaded the page of its one listing, a page without
\* gallery, and is about to resolve the fields.
InitFields ==
    /\ variant \in MainVariants
    /\ pc = IF variant = "avito_main" THEN "det_fields" ELSE "mdet_fields"
    /\ start_page = 1
    /\ end_page = 1
    /\ page = 0
    /\ sessions = <<"open">>
    /\ driver = 1
    /\ served = <<>>
    /\ listings = <<>>
    /\ page_data = <<>>
    /\ data = <<>>
    /\ listing_id_counter = 0
    /\ clock = T0 + DetailSettleDelay
    /\ csvfile = IF variant = "avito_main"
                 THEN <<[header |-> AvitoBasicHeader,
                         rows |-> AvitoCsvRows(<<AvitoRow(CardFull, 1, T1)>>)]>>
                 ELSE <<[header |-> MoteurBasicHeader, rows |-> <<MoteurRow(MCardFull)>>]>>
    /\ basic_data = csvfile[1].rows
    /\ navlog = <<[session |-> 1, kind |-> "detail",
                   target |-> IF variant = "avito_main" THEN basic_data[1][9]
                              ELSE basic_data[1][7]]>>
    /\ idx = 1
    /\ detailed_data = <<>>
    /\ sink = <<>>
    /\ detail_page \in
           {[mode |-> "ok", fields |-> f, img_find_raises |-> FALSE, imgs |-> <<>>] :
               f \in IF variant = "avito_main" THEN AvitoFieldPages ELSE MoteurFieldPages}
    /\ images = <<>>
    /\ img_index = 0
    /\ images_paths = <<>>
    /\ image_count = 0
    /\ files = {}
    /\ folders = {IF variant = "avito_main" THEN basic_data[1][10]
                  ELSE MoteurFolderName(basic_data[1][1], basic_data[1][2])}
    /\ attempts = <<>>
    /\ visits = <<>>
    /\ gallery_limit = 0
    /\ NoCalls

NextFields ==
    \/ AvitoDetailReturn
    \/ AvitoDetailFinish
    \/ MoteurDetailReturn
    \/ MoteurDetailFinish

SpecFields == InitFields /\ [][NextFields]_vars

\* ------------------------------------------------------ the single-page runs
\* The complete scripts on a site whose detail pages hold no image.
InitSingle ==
    /\ variant \in {"avito_scraper", "moteur_scraper"}
    /\ pc = IF variant = "avito_scraper" THEN "scrape_avito" ELSE "setup"
    /\ start_page = 0
    /\ end_page = 0
    /\ page = 0
    /\ sessions = <<>>
    /\ driver = 0
    /\ navlog = <<>>
    /\ served = <<>>
    /\ listings = <<>>
    /\ page_data = <<>>
    /\ data = <<>>
    /\ listing_id_counter = 0
    /\ clock = T0
    /\ csvfile = <<>>
    /\ DetailIdle
    /\ NoCalls
    /\ gallery_limit = 0

NextSingle ==
    \/ AvitoScrapeStart
    \/ AvitoLoadPageSingle
    \/ AvitoExtractListing
    \/ AvitoScrapeReturn
    \/ AvitoScraperCheck
    \/ AvitoDetailStart
    \/ AvitoDetailGet
    \/ AvitoDetailReturn
    \/ AvitoDetailFinish
    \/ MoteurSetup
    \/ MoteurLoadPage
    \/ MoteurExtractCar
    \/ MoteurScraperCheck
    \/ MoteurDetailGet
    \/ MoteurDetailReturn
    \/ MoteurDetailFinish

SpecSingle == InitSingle /\ [][NextSingle]_vars

\* ------------------------------------------------- the six scripts, no gallery
\* Every script of the repository from its start, on a site whose detail pages hold
\* no image: the initial scripts, the detail scripts reading a file an initial script
\* wrote (or none), and the complete scripts.
InitRuns ==
    /\ variant \in InitialVariants \cup MainVariants \cup {"avito_scraper", "moteur_scraper"}
    /\ pc = IF variant \in InitialVariants \cup MainVariants THEN "get_page_range"
            ELSE IF variant = "avito_scraper" THEN "scrape_avito" ELSE "setup"
    /\ start_page = 0
    /\ end_page = 0
    /\ page = 0
    /\ sessions = <<>>
    /\ driver = 0
    /\ navlog = <<>>
    /\ served = <<>>
    /\ listings = <<>>
    /\ page_data = <<>>
    /\ data = <<>>
    /\ listing_id_counter = 0
    /\ clock = T0
    /\ csvfile \in IF variant = "avito_main" THEN AvitoBasicFiles \cup {<<>>}
                   ELSE IF variant = "moteur_main" THEN MoteurBasicFiles \cup {<<>>}
                   ELSE {<<>>}
    /\ DetailIdle
    /\ NoCalls
    /\ gallery_limit = 0

NextRuns ==
    \/ GetPageRange
    \/ MainLoad
    \/ AvitoScrapeStart
    \/ AvitoLoadPageRange
    \/ AvitoLoadPageSingle
    \/ AvitoExtractListing
    \/ AvitoScrapeReturn
    \/ AvitoInitialSave
    \/ AvitoScraperCheck
    \/ AvitoDetailStart
    \/ AvitoDetailGet
    \/ AvitoDetailReturn
    \/ AvitoDetailFinish
    \/ MoteurSetup
    \/ MoteurLoadPage
    \/ MoteurExtractCar
    \/ MoteurInitialSave
    \/ MoteurScraperCheck
    \/ MoteurDetailStart
    \/ MoteurDetailGet
    \/ MoteurDetailReturn
    \/ MoteurDetailFinish

SpecRuns == InitRuns /\ [][NextRuns]_vars

\* ------------------------------------------------------------ properties
HasPrefix(s, pre) == Len(pre) <= Len(s) /\ SubSeq(s, 1, Len(pre)) = pre

\* Position of the column called name in a header.
ColumnOf(header, name) == CHOOSE i \in 1..Len(header) : header[i] = name

\* The header of the output of the running variant.
OutputHeader ==
    IF variant \in AvitoDetailVariants THEN AvitoCompleteHeader ELSE MoteurCompleteHeader

\* The folder identity of listing i: avito's basic row carries it, moteur's is made
\* from the row's ID and title.
FolderIdentity(i) ==
    IF variant \in AvitoDetailVariants THEN basic_data[i][10]
    ELSE MoteurFolderName(basic_data[i][1], basic_data[i][2])

\* C1: in the avito detail extractor, a page navigation that fails is caught inside
\* scrape_details: the visit ends with the all-unknown record (twelve "N/A", the
\* folder identity kept), which the caller merges; the exception never reaches the
\* caller.
C1_NavigationFailureCaught ==
    variant \in AvitoDetailVariants =>
        \A i \in 1..Len(visits) :
            visits[i].cause = "navigation" =>
                /\ visits[i].outcome = "aborted"
                /\ Len(detailed_data) >= i
                /\ detailed_data[i] =
                       AvitoCombine(basic_data[i],
                                    AvitoFailDetails(variant, basic_data[i][10]))

\* C2: process_detailed_data, for any batch of n basic listings and any pattern of
\* detail failures, is never left by an exception, reaches the output write, and
\* writes exactly n data rows, one per basic listing.
C2_AlwaysWritesAllRows ==
    variant \in MainVariants =>
        /\ pc # "crashed"
        /\ (pc = "done" /\ basic_data # <<>>) =>
               /\ sink # <<>>
               /\ Len(sink[1].rows) = Len(basic_data)

\* C3: main of avito_scraper, once discovery gave n >= 1 listings, writes an n-row
\* output whatever detail pages time out (a timed-out listing keeps its basic
\* columns and has "N/A" enrichment columns), and returns with no uncaught exception.
C3_SingleRunCompletes ==
    (variant = "avito_scraper" /\ basic_data # <<>>) =>
        /\ pc # "crashed"
        /\ pc = "done" =>
               /\ sink # <<>>
               /\ Len(sink[1].rows) = Len(basic_data)
               /\ \A i \in 1..Len(visits) :
                      visits[i].cause # "none" =>
                          sink[1].rows[i] =
                              AvitoCombine(basic_data[i],
                                           AvitoFailDetails(variant, basic_data[i][10]))

\* C4: in avito discovery the ordinals of the collected rows are exactly 1, 2, ..., n
\* in output order, across pages and whatever listings were dropped; the counter is
\* always one more than the number of rows collected.
C4_OrdinalsAreDense ==
    (variant \in AvitoDiscoveryVariants /\ listing_id_counter > 0) =>
        /\ \A i \in 1..Len(data) : data[i][1] = i
        /\ listing_id_counter = Len(data) + 1

\* Two pages with listings, the first listing of the run dropped, three rows kept.
C4_Witness ==
    /\ variant = "avito_initial"
    /\ pc = "disc_returned"
    /\ Len(served) = 2
    /\ served[1].kind = "listings"
    /\ served[1].cards[1].throws
    /\ served[2].kind = "listings"
    /\ Len(data) = 3

\* C5: for every listing of every variant, the directory made for its images and the
\* folder column of its output row both hold the listing's one folder identity, on
\* the success path and on the detail-failure path.
C5_FolderIdentityKept ==
    /\ \A i \in 1..Len(detailed_data) :
           detailed_data[i][ColumnOf(OutputHeader, "Dossier d'images")] = FolderIdentity(i)
    /\ \A i \in 1..Len(visits) :
           visits[i].folder # <<>> => visits[i].folder = FolderIdentity(i)

\* C6: every data row handed to the sink has as many columns as the header written
\* with it.
C6_RowsMatchHeader ==
    \A k \in 1..Len(sink) :
        \A i \in 1..Len(sink[k].rows) : Len(sink[k].rows[i]) = Len(sink[k].header)

\* Whether path stands for an image of listing l that was fetched and written whole
\* into folder, and is on disk.
Backed(path, l, folder) ==
    \E j \in 1..Len(attempts) :
        /\ attempts[j].listing = l
        /\ attempts[j].fetched
        /\ attempts[j].file # <<>>
        /\ attempts[j].file[1].complete
        /\ path = PathJoin(folder, attempts[j].file[1].name)
        /\ [dir |-> folder, name |-> attempts[j].file[1].name, complete |-> TRUE] \in files

\* Number of images of listing l that were fetched and written whole.
WrittenCount(l) ==
    Cardinality({j \in 1..Len(attempts) :
                    /\ attempts[j].listing = l
                    /\ attempts[j].file # <<>>
                    /\ attempts[j].file[1].complete})

\* C7: in the avito harvest every path of a listing's asset list stands for an image
\* that download_image fetched and wrote whole; an image whose fetch or write failed
\* has no entry, so the list is as long as the number of images written whole.
C7_PathsOnlyForWrittenImages ==
    variant \in AvitoDetailVariants =>
        /\ pc \in {"det_images", "det_fields"} =>
               /\ \A k \in 1..Len(images_paths) :
                      Backed(images_paths[k], idx, basic_data[idx][10])
               /\ Len(images_paths) = WrittenCount(idx)
        /\ \A l \in 1..Len(visits) :
               /\ \A k \in 1..Len(visits[l].paths) :
                      Backed(visits[l].paths[k], l, visits[l].folder)
               /\ visits[l].outcome = "ok" => Len(visits[l].paths) = WrittenCount(l)

\* A harvest over with a write that broke off, a fetch that failed and a path kept.
C7_Witness ==
    /\ variant = "avito_main"
    /\ pc = "det_fields"
    /\ Len(images_paths) = 1
    /\ \E j \in 1..Len(attempts) : attempts[j].fetched /\ ~attempts[j].ok
    /\ \E j \in 1..Len(attempts) : ~attempts[j].fetched

\* The number a path of folder carries after "image_".
PathPosition(path, folder) ==
    FirstNumber(SubSeq(path, Len(folder) + 2, Len(path)))

InOrder(paths, folder) ==
    \A k \in 1..(Len(paths) - 1) :
        PathPosition(paths[k], folder) < PathPosition(paths[k + 1], folder)

\* C8: every image file written is named image_<p> with p the 1-based position of
\* its element in the gallery as the page gave it, whatever images failed before it;
\* the asset list follows that order.
C8_NamedByOriginalPosition ==
    /\ \A j \in 1..Len(attempts) :
           attempts[j].file # <<>> =>
               HasPrefix(attempts[j].file[1].name, ImageName(attempts[j].pos) \o <<".">>)
    /\ \A l \in 1..Len(visits) : InOrder(visits[l].paths, visits[l].folder)
    /\ pc \in {"det_images", "det_fields"} => InOrder(images_paths, basic_data[idx][10])

\* Three images, the second fails: the list holds the images of positions 1 and 3.
C8_Witness ==
    /\ variant = "avito_main"
    /\ pc = "det_fields"
    /\ Len(detail_page.imgs) = 3
    /\ detail_page.imgs[2].fetch = "conn_error"
    /\ Len(images_paths) = 2
    /\ PathPosition(images_paths[2], basic_data[idx][10]) = 3

\* Whether the loop can read a URL to fetch from img.
Usable(img) ==
    /\ ~img.stale
    /\ img.src # <<>>
    /\ variant \in MoteurDetailVariants => Contains(KwHttp, img.src[1])

Attempted(l, p) ==
    \E j \in 1..Len(attempts) : attempts[j].listing = l /\ attempts[j].pos = p

FetchFailedAt(l, p) ==
    \E j \in 1..Len(attempts) :
        attempts[j].listing = l /\ attempts[j].pos = p /\ ~attempts[j].fetched

\* moteur's loop is ended by an element whose attribute cannot be read.
NoneStale(g, p, q) ==
    variant \in MoteurDetailVariants => \A r \in (p + 1)..q : ~g[r].stale

CardLink(card) ==
    IF variant \in AvitoDiscoveryVariants
    THEN IF card.href # <<>> THEN card.href ELSE NA
    ELSE IF card.link # <<>> THEN card.link[1] ELSE NA

RowLink(row) == IF variant \in AvitoDiscoveryVariants THEN row[9] ELSE row[7]

RECURSIVE CardLinks(_)
CardLinks(cards) ==
    IF cards = <<>> THEN <<>>
    ELSE (IF Head(cards).throws THEN <<>> ELSE <<CardLink(Head(cards))>>)
             \o CardLinks(Tail(cards))

RECURSIVE ServedLinks(_)
ServedLinks(pages) ==
    IF pages = <<>> THEN <<>>
    ELSE (IF Head(pages).kind = "listings" THEN CardLinks(Head(pages).cards) ELSE <<>>)
             \o ServedLinks(Tail(pages))

\* C10: a range scan that ends has navigated every page from the first to the last
\* requested, pages without container or without listings included, and holds
\* exactly the listings of the pages that had some, in page order.
C10_EmptyPagesSkipped ==
    (variant \in InitialVariants /\ pc \in {"disc_returned", "m_loop_done"}) =>
        /\ Len(navlog) = end_page - start_page + 1
        /\ \A k \in 1..Len(navlog) : navlog[k].target = start_page + k - 1
        /\ [i \in 1..Len(data) |-> RowLink(data[i])] = ServedLinks(served)

\* A scan of pages 1..2 whose first page is empty and whose second has listings.
C10_Witness ==
    /\ variant = "avito_initial"
    /\ pc = "disc_returned"
    /\ start_page = 1
    /\ end_page = 2
    /\ served[1].kind \in {"timeout", "no_listings"}
    /\ served[2].kind = "listings"
    /\ Len(data) >= 1

SingleVariants == AvitoSingleVariants \cup MoteurSingleVariants

\* The one page of a single-page run showed no container, or no listing element.
SinglePageEmpty ==
    /\ variant \in SingleVariants
    /\ served # <<>>
    /\ served[1].kind \in {"timeout", "no_listings"}

\* C11: in single-page mode, once the page has shown no container or no listing
\* element, discovery returns the empty result without raising, and the run ends with
\* no session beyond discovery's, no detail page visited and no file written.
C11_EmptySinglePageEndsQuietly ==
    SinglePageEmpty =>
        /\ pc \in {"disc_returned", "m_listed", "done"}
        /\ data = <<>>
        /\ Len(sessions) = 1
        /\ \A k \in 1..Len(navlog) : navlog[k].kind # "detail"
        /\ visits = <<>>
        /\ detailed_data = <<>>
        /\ sink = <<>>
        /\ csvfile = <<>>
        /\ files = {}
        /\ folders = {}
        /\ pc = "done" => sessions = <<"quit">>

\* An avito_scraper run over, whose page never showed the container.
C11_Witness ==
    /\ variant = "avito_scraper"
    /\ pc = "done"
    /\ served # <<>>
    /\ served[1].kind = "timeout"
    /\ sink = <<>>

\* The listing elements the loop over the current page has already handled.
HandledCards ==
    IF served = <<>> THEN <<>>
    ELSE LET cards == served[Len(served)].cards
         IN  SubSeq(cards, 1, Len(cards) - Len(listings))

\* The rows collected so far, those of the page being scanned included.
Collected == data \o page_data

\* Whether the step handles one listing element of the page being scanned.
ExtractStep == pc \in {"disc_listings", "m_cars"} /\ listings # <<>> /\ listings' = Tail(listings)

\* C12: on a page, an exception raised by listing element j drops element j alone:
\* the rows collected are always those of the elements handled so far that raised
\* nothing, in order; a step that handles a raising element leaves the collected rows
\* as they were, and any other step of the loop only appends one row.
C12_ListingFailureDropsOne ==
    /\ [](variant \in InitialVariants =>
            [i \in 1..Len(Collected) |-> RowLink(Collected[i])]
                = ServedLinks(SubSeq(served, 1, Len(served) - 1)) \o CardLinks(HandledCards))
    /\ [][(variant \in InitialVariants /\ ExtractStep) =>
            /\ Head(listings).throws => Collected' = Collected
            /\ ~Head(listings).throws =>
                    /\ Len(Collected') = Len(Collected) + 1
                    /\ SubSeq(Collected', 1, Len(Collected)) = Collected
            /\ Tail(listings) # <<>> => pc' = pc]_vars

\* A page whose first element raised and whose second was collected, and a page whose
\* first row survived the failure of its second element.
C12_Witness ==
    /\ variant = "avito_initial"
    /\ Len(served) = 2
    /\ served[1].cards = <<CardFull, CardStale>>
    /\ served[2].cards = <<CardStale, CardBare>>
    /\ listings = <<>>
    /\ Len(data) = 2
    /\ data[1][9] = UrlA
    /\ data[2][9] = UrlB

\* C13: two folder names made for different ordinals differ, whatever the two titles.
C13_DistinctOrdinalsDistinctFolders ==
    \A i, j \in 1..Len(returns) :
        (returns[i].fn = "create_folder_name" /\ returns[j].fn = "create_folder_name"
            /\ returns[i].num # returns[j].num)
            => returns[i].ret # returns[j].ret

\* Ordinals 1 and 12 with the titles "2x" and "x": the digits of the two prefixes
\* and titles run together the same way.
C13_Witness ==
    /\ Len(returns) = 2
    /\ returns[1].fn = "create_folder_name"
    /\ returns[1].num = 1
    /\ returns[1].text = TitleDigit
    /\ returns[2].num = 12
    /\ returns[2].text = TitleX

\* A title as the description reads it, for a set of kept characters: of the
\* characters that are whitespace or kept, in order, a kept one stands for itself and a
\* whitespace one that opens a run stands for "_"; the rest of a run stands for nothing.
Described(title, keep(_)) ==
    LET left == SelectSeq(title, LAMBDA c : IsSpace(c) \/ keep(c))
        shown == SelectSeq([j \in 1..Len(left) |-> j],
                           LAMBDA j : ~IsSpace(left[j]) \/ j = 1 \/ ~IsSpace(left[j - 1]))
    IN  [k \in 1..Len(shown) |-> IF IsSpace(left[shown[k]]) THEN "_" ELSE left[shown[k]]]

IsAlphanumeric(c) == c \in LowerLetters \cup UpperLetters \cup AccentLetters \cup Digits

\* The name the description gives for a title and an ordinal, for a set of kept
\* characters: removal, then whitespace runs, then the first 50 characters, after the
\* ordinal and "_".
DescribedName(title, ordinal, keep(_)) ==
    LET clean == Described(title, keep)
    IN  IntToStr(ordinal) \o <<"_">> \o [k \in 1..Min(Len(clean), FolderNameMaxLen) |-> clean[k]]

NameYaris ==
    <<"7", "_", "T", "o", "y", "o", "t", "a", "_", "Y", "a", "r", "i", "s", "_",
      "2", "0", "2", "0">>

\* The part of a returned name after its ordinal prefix.
NameBody(r) == SubSeq(r.ret, Len(IntToStr(r.num)) + 2, Len(r.ret))

HasTimeOfDay(s) == \E k \in 1..Len(s) : s[k] = ":"

DayOf(s) == ParseDigits(s, 0)

StampSeconds(s) ==
    LET hms == SubSeq(s, Len(s) - 7, Len(s)) IN
    DayOf(s) * SecondsPerDay + ParseDigits(SubSeq(hms, 1, 2), 0) * SecondsPerHour
        + ParseDigits(SubSeq(hms, 4, 5), 0) * SecondsPerMinute
        + ParseDigits(SubSeq(hms, 7, 8), 0)

\* The unit keywords in the order of the claim, and the seconds each unit stands for.
UnitKeywords == <<KwMinute, KwHeure, KwJour, KwMois, KwAn>>

UnitSeconds ==
    <<SecondsPerMinute, SecondsPerHour, SecondsPerDay, 30 * SecondsPerDay, 365 * SecondsPerDay>>

IsInstant(p) == Contains(KwInstants, Lower(p))

HasDigit(p) == \E k \in 1..Len(p) : p[k] \in Digits

\* The first keyword of UnitKeywords the phrase contains, 0 for none.
FirstUnit(p) ==
    IF \E u \in 1..5 : Contains(UnitKeywords[u], p)
    THEN CHOOSE u \in 1..5 :
             Contains(UnitKeywords[u], p) /\ \A v \in 1..(u - 1) : ~Contains(UnitKeywords[v], p)
    ELSE 0

DateReturns == {k \in 1..Len(returns) : returns[k].fn = "convert_relative_date"}

\* C15: an instant phrase gives the current time, number or not; any other phrase with
\* a number is resolved by the first of minute, hour, day, month, year it contains,
\* whatever later keywords it contains too.
C15_UnitPriority ==
    \A k \in DateReturns :
        LET p == returns[k].text
            ret == returns[k].ret
        IN  /\ IsInstant(p) => HasTimeOfDay(ret) /\ StampSeconds(ret) = clock
            /\ (~IsInstant(p) /\ HasDigit(p) /\ FirstUnit(p) > 0) =>
                   LET at == clock - FirstNumber(p) * UnitSeconds[FirstUnit(p)] IN
                   IF FirstUnit(p) <= 2
                   THEN HasTimeOfDay(ret) /\ StampSeconds(ret) = at
                   ELSE ~HasTimeOfDay(ret) /\ DayOf(ret) = at \div SecondsPerDay

\* "il y a 1 an et 2 mois" resolved as one month.
C15_Witness ==
    /\ Len(returns) = 1
    /\ returns[1].text = PhraseAnMois
    /\ DayOf(returns[1].ret) = (clock - 30 * SecondsPerDay) \div SecondsPerDay

\* C16: a phrase that is not an instant phrase and holds no digit, or a digit but no
\* unit keyword, comes back as "Date inconnue", and so does the raw "N/A" of a missing
\* date element; every call returns a text that is not empty.
C16_UnknownDateSentinel ==
    /\ pc = "done" => Len(returns) > 0
    /\ \A k \in DateReturns :
        LET p == returns[k].text
            ret == returns[k].ret
        IN  /\ (~IsInstant(p) /\ (~HasDigit(p) \/ FirstUnit(p) = 0)) => ret = DateInconnue
            /\ p = NA => ret = DateInconnue
            /\ ret # <<>>

\* "il y a un jour": a unit keyword and no digit.
C16_Witness ==
    /\ Len(returns) = 1
    /\ returns[1].text = PhraseUnJour
    /\ returns[1].ret = DateInconnue

\* C17: "il y a N minutes" at time t gives the timestamp of t minus N minutes, time of
\* day kept, so that N minutes added to it give t; a day, month or year phrase gives
\* the day of t minus N, 30 N or 365 N days, and nothing but the day.
C17_MinutesRoundTrip ==
    \A k \in DateReturns :
        \A n \in 0..MaxMagnitude :
            LET p == returns[k].text
                ret == returns[k].ret
            IN  /\ p = PhraseOf(n, WordMinutes) =>
                       /\ HasTimeOfDay(ret)
                       /\ StampSeconds(ret) + n * SecondsPerMinute = clock
                /\ \A u \in 3..5 :
                       p = PhraseOf(n, <<WordJours, WordMois, WordAns>>[u - 2]) =>
                           /\ \A j \in 1..Len(ret) : ret[j] \in Digits
                           /\ DayOf(ret) = (clock - n * UnitSeconds[u]) \div SecondsPerDay

\* Five minutes before a capture five seconds after midnight: the day before, 23:55:05.
C17_Witness ==
    /\ Len(returns) = 1
    /\ returns[1].text = PhraseOf(5, WordMinutes)
    /\ clock % SecondsPerDay = 5
    /\ DayOf(returns[1].ret) = clock \div SecondsPerDay - 1
    /\ SubSeq(returns[1].ret, Len(returns[1].ret) - 7, Len(returns[1].ret))
           = <<"2", "3", ":", "5", "5", ":", "0", "5">>

\* The three creator lookups of a moteur page, in rank order.
CreatorLookups(pg) == <<pg.creator1, pg.creator2, pg.creator3>>

\* A lookup that found its element, with a text that is a value: neither blank nor
\* the text "N/A".
FoundValue(lookup) == lookup # <<>> /\ Strip(lookup[1]) \notin {<<>>, NA}

\* The value of the first lookup in rank order that found one, "N/A" when none did.
RankedValue(lookups) ==
    IF \E r \in 1..Len(lookups) : FoundValue(lookups[r])
    THEN Strip(lookups[CHOOSE r \in 1..Len(lookups) :
                           FoundValue(lookups[r])
                               /\ \A q \in 1..(r - 1) : ~FoundValue(lookups[q])][1])
    ELSE NA

\* C18: on a moteur detail page whose creator lookups each raise or find a value, the
\* creator of the record is the value of the first lookup in rank order that found
\* one, "N/A" when all three raised, and the visit ends with its record.
C18_CreatorRankOrder ==
    \A l \in 1..Len(visits) :
        (variant \in MoteurDetailVariants /\ visits[l].fields # <<>>
            /\ \A r \in 1..3 : LET lk == CreatorLookups(visits[l].fields[1])[r]
                               IN  lk = <<>> \/ FoundValue(lk))
            => /\ visits[l].outcome = "ok"
               /\ detailed_data[l][ColumnOf(MoteurCompleteHeader, "Créateur")]
                      = RankedValue(CreatorLookups(visits[l].fields[1]))

\* C19: no field of an emitted record is the empty text: a field whose element has
\* blank text, or whose scan finds no item, holds "N/A".
C19_NoEmptyField ==
    \A l \in 1..Len(detailed_data) :
        \A k \in 1..Len(detailed_data[l]) : detailed_data[l][k] # <<>>

\* The label substrings the two scans test for.
AvitoKnownLabels ==
    {LblAnneeModele, LblTypeVehicule, LblCategorie, LblKilometrage, LblMarque, LblModele,
     LblPortes, LblOrigine, LblPremiereMain, LblPuissance, LblEtat, LblSecteur}

MoteurKnownLabels ==
    {LblKilometrage, LblAnnee, MLblBoite, MLblCarburant, LblPuissance, LblPortes,
     LblPremiereMain, MLblDedouane}

KnownLabel(label) ==
    \E kw \in IF variant \in AvitoDetailVariants THEN AvitoKnownLabels ELSE MoteurKnownLabels :
        Contains(kw, label)

\* A label/value pair the claim calls without effect: a lookup in it raises, or its
\* label holds none of the known substrings.
InertPair(pair) == pair.throws \/ ~KnownLabel(Strip(pair.label))

InertLine(line) == line.throws \/ (Len(line.spans) >= 2 /\ ~KnownLabel(Strip(line.spans[1])))

\* The page without its inert pairs.
WithoutInert(pg) ==
    IF variant \in AvitoDetailVariants
    THEN [pg EXCEPT !.pairs = SelectSeq(pg.pairs, LAMBDA p : ~InertPair(p))]
    ELSE [pg EXCEPT !.lines = SelectSeq(pg.lines, LAMBDA ln : ~InertLine(ln))]

\* The record a visit of listing l that read page pg hands to the sink.
RecordOf(l, pg) ==
    IF variant \in AvitoDetailVariants
    THEN AvitoCombine(basic_data[l],
                      AvitoDetails(variant, pg, FolderIdentity(l), visits[l].paths))
    ELSE MoteurCombine(basic_data[l],
                       MoteurDetails(pg, basic_data[l][2], FolderIdentity(l)))

\* C20: in the label/value scan, a pair whose label holds no known substring and a
\* pair whose lookup raises change no slot, and the pairs after them are still
\* scanned: the record is the one the page would give without those pairs.
C20_InertPairsChangeNothing ==
    \A l \in 1..Len(visits) :
        (variant \in MainVariants /\ visits[l].fields # <<>> /\ visits[l].outcome = "ok")
            => detailed_data[l] = RecordOf(l, WithoutInert(visits[l].fields[1]))

\* An unknown label, a raising block, then the brand: the brand is in the record.
C20_Witness ==
    /\ variant = "avito_main"
    /\ Len(visits) = 1
    /\ visits[1].fields # <<>>
    /\ Len(visits[1].fields[1].pairs) = 3
    /\ visits[1].fields[1].pairs[1].label = LblCouleur
    /\ visits[1].fields[1].pairs[2].throws
    /\ visits[1].fields[1].pairs[3].label = LblMarque
    /\ detailed_data[1][ColumnOf(AvitoCompleteHeader, "Marque")] = TxtDacia

\* The detail record of the visit to listing i: what the extractor returned, or the
\* all-unknown record when the visit was aborted.
DetailRecordOf(i) ==
    IF variant \in AvitoDetailVariants
    THEN IF visits[i].outcome = "ok"
         THEN AvitoDetails(variant, visits[i].fields[1], visits[i].folder, visits[i].paths)
         ELSE AvitoFailDetails(variant, basic_data[i][10])
    ELSE IF visits[i].outcome = "ok"
         THEN MoteurDetails(visits[i].fields[1], basic_data[i][2], visits[i].folder)
         ELSE MoteurFailDetails

\* The columns of a detail record that are enrichment fields: all but the folder.
EnrichmentCells(rec) ==
    IF variant \in AvitoDetailVariants THEN SubSeq(rec, 1, 12)
    ELSE SubSeq(rec, 1, 9) \o SubSeq(rec, 11, 13)

\* C21: the merge of process_detailed_data keeps the eight basic columns of the basic
\* row as they were discovered, drops the row's URL and folder columns, and appends
\* the fields of the detail record in their order; with the all-unknown detail record
\* every enrichment column of the merged row is "N/A".
C21_MergeKeepsBasicColumns ==
    variant \in MainVariants =>
        \A i \in 1..Len(detailed_data) :
            LET row == basic_data[i]
                out == detailed_data[i]
                rec == DetailRecordOf(i)
            IN  /\ Len(row) = 10
                /\ out = SubSeq(row, 1, 8) \o rec
                /\ visits[i].outcome = "aborted" =>
                       \A k \in 1..Len(EnrichmentCells(rec)) : EnrichmentCells(rec)[k] = NA

\* Whether two answers are not a page range: one is no number, one is not positive,
\* or the first exceeds the second.
BadAnswers(a, b) ==
    \/ ~a.numeric
    \/ ~b.numeric
    \/ a.val <= 0
    \/ b.val <= 0
    \/ a.val > b.val

\* C22: get_page_range returns only a pair of positive integers start <= end, the pair
\* that was typed; answers that are no such pair are refused with a warning and asked
\* again; as long as no pair has been returned no session exists, no page has been
\* requested and no file has been written.
C22_OnlyValidRanges ==
    variant \in InitialVariants =>
        /\ pc = "get_page_range" =>
               /\ start_page = 0 /\ end_page = 0
               /\ sessions = <<>> /\ navlog = <<>>
               /\ csvfile = <<>> /\ files = {} /\ sink = <<>>
               /\ asked # <<>> =>
                      /\ BadAnswers(asked[1].a, asked[1].b)
                      /\ asked[1].message # NoMessage
        /\ pc # "get_page_range" =>
               /\ start_page \in Nat \ {0}
               /\ end_page \in Nat \ {0}
               /\ start_page <= end_page
               /\ asked # <<>>
               /\ ~BadAnswers(asked[1].a, asked[1].b)
               /\ asked[1].a.val = start_page
               /\ asked[1].b.val = end_page
               /\ asked[1].message = NoMessage

\* A pair with start above end has just been refused: the run still waits for a range.
C22_Witness ==
    /\ variant \in InitialVariants
    /\ pc = "get_page_range"
    /\ asked # <<>>
    /\ asked[1].a.numeric /\ asked[1].b.numeric
    /\ asked[1].b.val > 0
    /\ asked[1].a.val > asked[1].b.val
    /\ asked[1].message = MsgInferieure

\* C23: in a single-run pipeline every navigation of the run, discovery pages and
\* detail visits alike, is issued on one and the same session, and the run creates no
\* second session.
C23_OneSessionPerRun ==
    variant \in SingleVariants =>
        /\ Len(sessions) <= 1
        /\ \A i, j \in 1..Len(navlog) : navlog[i].session = navlog[j].session

\* The scripts that discover listings, and those that visit detail pages.
DiscoveryRuns == InitialVariants \cup SingleVariants
DetailRuns == MainVariants \cup SingleVariants

\* The detail navigations of the run, in the order they were issued.
DetailNavs == SelectSeq(navlog, LAMBDA n : n.kind = "detail")

\* The URL of the i-th listing handed to the detail phase.
BasicUrl(i) == IF variant \in AvitoDetailVariants THEN basic_data[i][9] ELSE basic_data[i][7]

\* The output row that merges listing i with the detail record of visit i.  The dict
\* of moteur_scraper carries the day of the visit in its fourth cell, which is left
\* as it stands.
MergedRow(i) ==
    IF variant \in AvitoDetailVariants THEN AvitoCombine(basic_data[i], DetailRecordOf(i))
    ELSE IF variant = "moteur_main" THEN MoteurCombine(basic_data[i], DetailRecordOf(i))
    ELSE LET day == detailed_data[i][4]
             made == IF visits[i].outcome = "ok"
                     THEN MoteurScraperDetail(visits[i].fields[1], basic_data[i],
                                              visits[i].folder, T0)
                     ELSE MoteurScraperFailDetail(basic_data[i], T0)
         IN  [made EXCEPT ![4] = day]

\* C24: listings are collected in ascending page order and, within a page, in DOM
\* order; the detail phase receives them in that order and visits their URLs in that
\* order, one visit per listing; output row i merges listing i with the detail record
\* of visit i, which went to listing i's URL.
C24_DiscoveryOrderKept ==
    /\ variant \in DiscoveryRuns =>
           /\ \A i, j \in 1..Len(served) : i < j => served[i].page < served[j].page
           /\ [i \in 1..Len(Collected) |-> RowLink(Collected[i])]
                  = ServedLinks(SubSeq(served, 1, Len(served) - 1)) \o CardLinks(HandledCards)
    /\ (variant \in SingleVariants /\ basic_data # <<>>) =>
           /\ basic_data = data
           /\ [i \in 1..Len(basic_data) |-> BasicUrl(i)] = ServedLinks(served)
    /\ variant \in DetailRuns =>
           /\ Len(DetailNavs) <= Len(basic_data)
           /\ \A k \in 1..Len(DetailNavs) : DetailNavs[k].target = BasicUrl(k)
           /\ Len(visits) <= Len(DetailNavs)
           /\ Len(detailed_data) <= Len(visits)
           /\ \A i \in 1..Len(detailed_data) : detailed_data[i] = MergedRow(i)
           /\ \A k \in 1..Len(sink) : sink[k].rows = detailed_data

\* A complete moteur run over a page of two listings with different links, both
\* visited and written.
C24_Witness ==
    /\ variant = "moteur_scraper"
    /\ pc = "done"
    /\ Len(basic_data) = 2
    /\ BasicUrl(1) # BasicUrl(2)
    /\ Len(DetailNavs) = 2
    /\ sink # <<>>
    /\ Len(sink[1].rows) = 2

\* Whether the run is over: main returned, or an exception left it.
RunEnded == pc \in {"done", "crashed"}

\* C25: in every pipeline variant the sink is written exactly once in a run that had
\* listings to visit, and only after the detail visit of the last listing has
\* finished: as long as a visit is pending or in progress the sink holds nothing.
C25_SinkWrittenOnceAtEnd ==
    variant \in DetailRuns =>
        /\ Len(sink) <= 1
        /\ sink # <<>> =>
               /\ Len(visits) = Len(basic_data)
               /\ detail_page = NoPage
               /\ Len(sink[1].rows) = Len(basic_data)
        /\ (RunEnded /\ basic_data # <<>>) => Len(sink) = 1

HasSuffix(s, suf) == Len(suf) <= Len(s) /\ SubSeq(s, Len(s) - Len(suf) + 1, Len(s)) = suf

\* The image element download_image call j was made for.
ImageOf(j) ==
    LET l == attempts[j].listing
        p == attempts[j].pos
    IN  IF l <= Len(visits) THEN visits[l].imgs[p] ELSE detail_page.imgs[p]

\* C26: in every harvester variant the file of a fetched image ends in ".png" when the
\* response's content type holds "png", and in ".jpg" in every other case.
C26_ExtensionFromContentType ==
    \A j \in 1..Len(attempts) :
        (attempts[j].fetched /\ attempts[j].file # <<>>) =>
            HasSuffix(attempts[j].file[1].name,
                      IF Contains(KwPng, ImageOf(j).ctype) THEN ExtPng ELSE ExtJpg)

\* The label/value blocks the scan of page pg reads through, in DOM order.
ReadablePairs(pg) ==
    IF pg.pairs_raises THEN <<>> ELSE SelectSeq(pg.pairs, LAMBDA p : ~p.throws)

\* Those whose label holds "Secteur".
SecteurPairs(pg) == SelectSeq(ReadablePairs(pg), LAMBDA p : Contains(LblSecteur, p.label))

\* C27: on an avito detail page with a location element, the emitted seller city is
\* the location text before its first comma; the emitted sector is the value of the
\* "Secteur" pair when the page has one (the last one in DOM order), and the whole
\* location text when it has none.
C27_SecteurOverwritesLocation ==
    variant = "avito_main" =>
        \A i \in 1..Len(detailed_data) :
            (visits[i].outcome = "ok" /\ visits[i].fields[1].location # <<>>) =>
                LET pg == visits[i].fields[1]
                    text == Strip(pg.location[1])
                    sect == SecteurPairs(pg)
                    out == detailed_data[i]
                IN  /\ out[ColumnOf(AvitoCompleteHeader, "Ville du vendeur")]
                           = BeforeFirst(text, ",")
                    /\ out[ColumnOf(AvitoCompleteHeader, "Secteur")]
                           = IF sect # <<>> THEN Strip(sect[Len(sect)].value) ELSE text

\* A page located "Rabat, Agdal" with a "Secteur" pair: sector "Hay", city "Rabat".
C27_Witness ==
    /\ variant = "avito_main"
    /\ Len(detailed_data) = 1
    /\ visits[1].outcome = "ok"
    /\ visits[1].fields[1].location = <<TxtLocation>>
    /\ SecteurPairs(visits[1].fields[1]) # <<>>
    /\ detailed_data[1][ColumnOf(AvitoCompleteHeader, "Secteur")] = TxtHay
    /\ detailed_data[1][ColumnOf(AvitoCompleteHeader, "Ville du vendeur")]
           = <<"R", "a", "b", "a", "t">>

\* The branches of the avito label chain in their fixed order: the substrings a
\* branch tests for and the output column it writes ("" for the branch that writes
\* nothing).
AvitoBranches ==
    <<[subs |-> {LblAnneeModele}, col |-> ""],
      [subs |-> {LblTypeVehicule, LblCategorie}, col |-> "Type de véhicule"],
      [subs |-> {LblKilometrage}, col |-> "Kilométrage"],
      [subs |-> {LblMarque}, col |-> "Marque"],
      [subs |-> {LblModele}, col |-> "Modèle"],
      [subs |-> {LblPortes}, col |-> "Nombre de portes"],
      [subs |-> {LblOrigine}, col |-> "Origine"],
      [subs |-> {LblPremiereMain}, col |-> "Première main"],
      [subs |-> {LblPuissance}, col |-> "Puissance fiscale"],
      [subs |-> {LblEtat}, col |-> "État"],
      [subs |-> {LblSecteur}, col |-> "Secteur"]>>

BranchTaken(k, label) == \E s \in AvitoBranches[k].subs : Contains(s, label)

\* The one column a pair writes: that of the first branch its label satisfies.
ColumnWritten(pair) ==
    LET label == Strip(pair.label)
        taken == {k \in 1..Len(AvitoBranches) : BranchTaken(k, label)}
    IN  IF taken = {} THEN ""
        ELSE AvitoBranches[CHOOSE k \in taken : \A m \in taken : k <= m].col

\* What column col holds after a scan in which no pair wrote it.
UnwrittenValue(pg, col) ==
    IF col = "Secteur" /\ pg.location # <<>> THEN Strip(pg.location[1])
    ELSE IF col = "Type de véhicule" /\ pg.category # <<>> THEN Strip(pg.category[1])
    ELSE NA

\* C28: when the avito label scan runs, a pair writes only the column of the first branch, in
\* the fixed order, whose substring its label holds: a column of the record is the
\* value of the last pair in DOM order that writes it, and what the page gave without
\* pairs when none does.  A pair labelled "Année-Modèle" so never writes the model.
C28_FirstBranchLastPairWins ==
    variant = "avito_main" =>
        \A i \in 1..Len(detailed_data) :
            (visits[i].outcome = "ok" /\ ~visits[i].fields[1].pairs_raises) =>
                LET pg == visits[i].fields[1]
                    out == detailed_data[i]
                IN  \A k \in 2..Len(AvitoBranches) :
                        LET col == AvitoBranches[k].col
                            writers == SelectSeq(ReadablePairs(pg),
                                                 LAMBDA p : ColumnWritten(p) = col)
                        IN  out[ColumnOf(AvitoCompleteHeader, col)]
                                = IF writers # <<>> THEN Strip(writers[Len(writers)].value)
                                  ELSE UnwrittenValue(pg, col)

\* Two "Marque" pairs and an "Année-Modèle" pair: the brand is the second value, the
\* model stays unknown.
C28_Witness ==
    /\ variant = "avito_main"
    /\ Len(detailed_data) = 1
    /\ visits[1].outcome = "ok"
    /\ Len(visits[1].fields[1].pairs) = 3
    /\ visits[1].fields[1].pairs[1] = [label |-> LblMarque, value |-> TxtDacia, throws |-> FALSE]
    /\ visits[1].fields[1].pairs[2] = [label |-> LblMarque, value |-> TxtAbs, throws |-> FALSE]
    /\ visits[1].fields[1].pairs[3].label = LblAnneeModele
    /\ detailed_data[1][ColumnOf(AvitoCompleteHeader, "Marque")] = TxtAbs
    /\ detailed_data[1][ColumnOf(AvitoCompleteHeader, "Modèle")] = NA

\* The positions at which the next step of the run commands the driver.
DriverInUse ==
    pc \in {"disc_page", "disc_listings", "m_page", "m_cars", "det_get", "det_images",
            "det_fields", "mdet_get", "mdet_images", "mdet_fields"}

\* C29: every session a run created is quit when the run ends, however it ends, and
\* the driver is never commanded on a session that has been quit.
C29_SessionsQuitOnEveryPath ==
    /\ RunEnded => \A s \in 1..Len(sessions) : sessions[s] = "quit"
    /\ DriverInUse => (driver \in 1..Len(sessions) /\ sessions[driver] = "open")

\* C30: whenever avito's download_image returned None for an image, the listing's
\* folder holds no file of that image's name afterwards.
C30_FailedDownloadLeavesNoFile ==
    variant \in AvitoDetailVariants =>
        \A j \in 1..Len(attempts) :
            ~attempts[j].ok =>
                ~\E f \in files :
                    /\ f.dir = basic_data[attempts[j].listing][10]
                    /\ HasPrefix(f.name, ImageName(attempts[j].pos) \o <<".">>)

====
